---- MODULE Spec2Model ----
(***************************************************************************)
(* Offline-first storage and synchronisation layer of the library          *)
(* attendance tracker: storage drivers, Storage Manager, deduplication and *)
(* merge, and the AutoSyncService cycle (push pass, pull pass, throttle).  *)
(*                                                                         *)
(* Time is counted in ticks of 100 ms, so that the truncation to the       *)
(* second of deduplicateAttendance is visible and 30 days still fit.       *)
(***************************************************************************)
EXTENDS Integers, Sequences, FiniteSets, TLC

\* ---------------------------------------------------------------- constants
\* 1000 ms, the granularity of deduplicateAttendance's key
TicksPerSecond == 10
\* 10000 ms, the fuzzy window of the merge and of the push pass's lookup
FUZZY_WINDOW == 100
\* 15000 ms, the grace period of the push pass in a browser host
PUSH_GRACE == 150
\* AutoSyncService.MIN_SYNC_INTERVAL, 30000 ms
MIN_SYNC_INTERVAL == 300
\* AutoSyncService.REGULAR_SYNC_INTERVAL, 60000 ms
REGULAR_SYNC_INTERVAL == 600
\* the constructor's delayed check, 2000 ms
STARTUP_DELAY == 20
\* COOLDOWN_SECONDS of addAttendanceRecord, 300 s
COOLDOWN == 3000
\* 7 days, the push window
PUSH_WINDOW == 6048000
\* 30 days, the pull window and the drivers' load window
PULL_WINDOW == 25920000

\* ---------------------------------------------------------------- bounds
\* longest list handed to the pure functions
MaxLen == 3
\* last instant of the clock
MaxNow == 1600
\* the instant the service is constructed
StartNow == 1000
\* sync cycles in flight at once
MaxInflight == 1
\* sync cycles in flight where cycles may overlap
MaxOverlap == 2
\* attendance entries the user creates
MaxLocal == 1
\* attendance rows other clients insert into the backend
MaxOther == 1
\* change notifications of other clients in one behaviour
MaxNotified == 3
\* drivers that start failing
MaxFaults == 1

\* ---------------------------------------------------------------- values
\* An identifier is a placeholder ("local_..."), a backend UUID, a numeric row
\* id of the file-backed store, or absent.
LocalId(n) == [kind |-> "local", n |-> n]
UuidId(n) == [kind |-> "uuid", n |-> n]
NumId(n) == [kind |-> "num", n |-> n]
NoId == [kind |-> "none", n |-> 0]

isUUID(id) == id.kind = "uuid"
startsWithLocal(id) == id.kind = "local"

Abs(x) == IF x < 0 THEN -x ELSE x

HasCourse(r) == r.course # ""

SameEvent(c, rec) ==
    /\ c.studentId = rec.studentId
    /\ c.type = rec.type
    /\ Abs(c.timestamp - rec.timestamp) <= FUZZY_WINDOW

\* index of the first element of s satisfying Test, 0 when there is none
FirstIndex(s, Test(_)) ==
    IF \E i \in 1..Len(s) : Test(s[i])
    THEN CHOOSE i \in 1..Len(s) : Test(s[i]) /\ \A j \in 1..(i - 1) : ~Test(s[j])
    ELSE 0

\* ---------------------------------------------------------------- merge engine
\* a slip: the identifier rule is consulted before the course rule
pickBetterIdFirst(a, b) ==
    IF startsWithLocal(a.id) /\ ~startsWithLocal(b.id) THEN b
    ELSE IF startsWithLocal(b.id) /\ ~startsWithLocal(a.id) THEN a
    ELSE IF HasCourse(a) /\ ~HasCourse(b) THEN a
    ELSE IF HasCourse(b) /\ ~HasCourse(a) THEN b
    ELSE IF a.timestamp >= b.timestamp THEN a ELSE b

\* pickBetter of the pull pass
pickBetter(a, b) ==
    IF HasCourse(a) /\ ~HasCourse(b) THEN a
    ELSE IF HasCourse(b) /\ ~HasCourse(a) THEN b
    ELSE IF startsWithLocal(a.id) /\ ~startsWithLocal(b.id) THEN b
    ELSE IF startsWithLocal(b.id) /\ ~startsWithLocal(a.id) THEN a
    ELSE IF a.timestamp >= b.timestamp THEN a ELSE b

\* pickBetter of the realtime ingestor
pickBetterRealtime(a, b) ==
    IF HasCourse(a) /\ ~HasCourse(b) THEN a
    ELSE IF HasCourse(b) /\ ~HasCourse(a) THEN b
    ELSE IF startsWithLocal(a.id) /\ ~startsWithLocal(b.id) THEN b
    ELSE IF startsWithLocal(b.id) /\ ~startsWithLocal(a.id) THEN a
    ELSE IF a.timestamp >= b.timestamp THEN a ELSE b

\* pickBetter of attendanceService.getAttendanceRecords
pickBetterService(a, b) ==
    IF HasCourse(a) /\ ~HasCourse(b) THEN a
    ELSE IF HasCourse(b) /\ ~HasCourse(a) THEN b
    ELSE IF isUUID(a.id) /\ ~isUUID(b.id) THEN a
    ELSE IF isUUID(b.id) /\ ~isUUID(a.id) THEN b
    ELSE IF a.timestamp >= b.timestamp THEN a ELSE b

\* one turn of the pull pass's loop: rec joins deduped or contests a slot
DedupedStep(deduped, rec) ==
    LET idx == FirstIndex(deduped, LAMBDA c : SameEvent(c, rec))
    IN  IF idx = 0 THEN Append(deduped, rec)
        ELSE [deduped EXCEPT ![idx] = pickBetter(deduped[idx], rec)]

RECURSIVE DedupedFrom(_, _, _)
DedupedFrom(combined, i, deduped) ==
    IF i > Len(combined) THEN deduped
    ELSE DedupedFrom(combined, i + 1, DedupedStep(deduped, combined[i]))

\* the deduped loop of syncSupabaseToLocal
Deduped(combinedRecords) == DedupedFrom(combinedRecords, 1, <<>>)

DedupeListStep(out, rec) ==
    LET idx == FirstIndex(out, LAMBDA c : SameEvent(c, rec))
    IN  IF idx = 0 THEN Append(out, rec)
        ELSE [out EXCEPT ![idx] = pickBetterRealtime(out[idx], rec)]

RECURSIVE DedupeListFrom(_, _, _)
DedupeListFrom(list, i, out) ==
    IF i > Len(list) THEN out
    ELSE DedupeListFrom(list, i + 1, DedupeListStep(out, list[i]))

\* dedupeList of RealtimeService.processAttendanceChange
dedupeList(list) == DedupeListFrom(list, 1, <<>>)

ServiceDedupeStep(deduped, rec) ==
    LET idx == FirstIndex(deduped, LAMBDA c : SameEvent(c, rec))
    IN  IF idx = 0 THEN Append(deduped, rec)
        ELSE [deduped EXCEPT ![idx] = pickBetterService(deduped[idx], rec)]

RECURSIVE ServiceDedupeFrom(_, _, _)
ServiceDedupeFrom(combined, i, deduped) ==
    IF i > Len(combined) THEN deduped
    ELSE ServiceDedupeFrom(combined, i + 1, ServiceDedupeStep(deduped, combined[i]))

\* the dedupe loop of attendanceService.getAttendanceRecords
ServiceDedupe(combined) == ServiceDedupeFrom(combined, 1, <<>>)

\* ---------------------------------------------------------------- exact-key dedup
\* stable insertion of r into a list sorted by timestamp, newest first
RECURSIVE InsertDesc(_, _)
InsertDesc(sorted, r) ==
    IF sorted = <<>> THEN <<r>>
    ELSE IF Head(sorted).timestamp >= r.timestamp
         THEN <<Head(sorted)>> \o InsertDesc(Tail(sorted), r)
         ELSE <<r>> \o sorted

RECURSIVE SortDescFrom(_, _, _)
SortDescFrom(records, i, sorted) ==
    IF i > Len(records) THEN sorted
    ELSE SortDescFrom(records, i + 1, InsertDesc(sorted, records[i]))

\* Array.prototype.sort with (a, b) => b.timestamp - a.timestamp (stable)
SortDesc(records) == SortDescFrom(records, 1, <<>>)

\* a slip: the key keeps the milliseconds
DedupKeyExact(record) ==
    <<record.studentId, record.type, record.timestamp>>

\* the key of deduplicateAttendance: studentId|type|timestamp to the second
DedupKey(record) ==
    <<record.studentId, record.type, record.timestamp \div TicksPerSecond>>

RECURSIVE SeenLoop(_, _, _, _)
SeenLoop(sorted, i, seen, deduped) ==
    IF i > Len(sorted) THEN deduped
    ELSE IF DedupKey(sorted[i]) \in seen
         THEN SeenLoop(sorted, i + 1, seen, deduped)
         ELSE SeenLoop(sorted, i + 1, seen \cup {DedupKey(sorted[i])},
                       Append(deduped, sorted[i]))

Reverse(s) == [i \in 1..Len(s) |-> s[Len(s) + 1 - i]]

\* a slip: the kept entries are reversed instead of sorted back
deduplicateAttendanceReversed(records) ==
    Reverse(SeenLoop(SortDesc(records), 1, {}, <<>>))

deduplicateAttendance(records) ==
    SortDesc(SeenLoop(SortDesc(records), 1, {}, <<>>))

\* ---------------------------------------------------------------- state
VARIABLES
    now,                  \* Date.now(), in ticks
    online,               \* navigator.onLine
    avail,                \* the drivers whose isAvailable() is true on this host
    failing,              \* the drivers whose operations currently fail
    saveFailing,          \* the drivers whose save currently throws (storage full)
    currentDriver,        \* StorageManager.currentDriver ("unknown" before init)
    store,                \* what each driver holds
    remoteStudents,       \* backend table students, in creation order
    remoteAttendance,     \* backend table attendance_records, in creation order
    isOnline,             \* AutoSyncService.isOnline
    lastKnownOnlineState, \* AutoSyncService.lastKnownOnlineState
    lastSyncTime,         \* AutoSyncService.lastSyncTime
    startupCheckPending,  \* the constructor's delayed check has not run yet
    nextTimer,            \* when the interval timer is due next
    pendingPush,          \* cycles started whose push pass has not run yet
    pendingPull,          \* cycles whose push pass is done and pull pass is not
    created,              \* placeholder ids handed out by generateId, a count
    addInFlight,          \* the addAttendanceRecord call suspended at its remote insert
    others,               \* rows other clients have inserted, a count
    lastOp,               \* what the last handler did, for the properties
    fnIn,                 \* input list of the pure functions
    fnOut,                \* their output
    fnStage,              \* which function produced fnOut
    pendingStudentUpdates,    \* RealtimeService.pendingStudentUpdates, in insertion order
    pendingAttendanceUpdates, \* RealtimeService.pendingAttendanceUpdates, in insertion order
    suspended,            \* per operation, the envelope it loaded before it suspended
    flushTimeout,         \* RealtimeService.flushTimeout is set
    flushTimers           \* setTimeout callbacks of scheduleFlush not yet run, a count

syncVarsButLastOp ==
    <<now, online, avail, failing, saveFailing, currentDriver, store, remoteStudents,
      remoteAttendance, isOnline, lastKnownOnlineState, lastSyncTime,
      startupCheckPending, nextTimer, pendingPush, pendingPull, created, addInFlight, others>>

syncVars ==
    <<now, online, avail, failing, saveFailing, currentDriver, store, remoteStudents,
      remoteAttendance, isOnline, lastKnownOnlineState, lastSyncTime,
      startupCheckPending, nextTimer, pendingPush, pendingPull, created, addInFlight, others, lastOp>>

fnVars == <<fnIn, fnOut, fnStage>>

rtVars == <<pendingStudentUpdates, pendingAttendanceUpdates, suspended, flushTimeout,
            flushTimers>>

vars == <<syncVars, fnVars, rtVars>>

\* ---------------------------------------------------------------- envelope
\* lastSync: null
NoSync == 0

Drivers == <<"electron-sqlite", "indexeddb", "localstorage">>

DriverNames == {Drivers[i] : i \in 1..Len(Drivers)}

DriverIndex(d) == CHOOSE i \in 1..Len(Drivers) : Drivers[i] = d

StudentIds == {"S1"}

Types == {"check-in", "check-out"}

EmptyData ==
    [students |-> <<>>, attendanceRecords |-> <<>>, lastSync |-> NoSync,
     fullSyncCompleted |-> "undefined"]

EmptyStore == [d \in DriverNames |-> EmptyData]

Truthy(flag) == flag = "true"

isElectron == "electron-sqlite" \in avail

Range(s) == {s[i] : i \in 1..Len(s)}

\* `${studentId}-${timestamp ISO}-${type}`
CompositeKey(r) == <<r.studentId, r.timestamp, r.type>>

\* Array.from(new Map(list.map(x => [Key(x), x])).values()):
\* one slot per key, at the place of its first occurrence, holding its last
MapValues(list, Key(_)) ==
    LET firsts == SelectSeq([i \in 1..Len(list) |-> i],
                     LAMBDA i : \A j \in 1..(i - 1) : Key(list[j]) # Key(list[i]))
        lastOf(i) == CHOOSE j \in i..Len(list) :
                        /\ Key(list[j]) = Key(list[i])
                        /\ \A k \in (j + 1)..Len(list) : Key(list[k]) # Key(list[i])
    IN  [n \in 1..Len(firsts) |-> list[lastOf(firsts[n])]]

\* ---------------------------------------------------------------- drivers
\* key order of an IndexedDB object store: numbers, then strings; a UUID
\* (hex digits) sorts before "local_..."
IdRank(id) ==
    (CASE id.kind = "num" -> 1000 [] id.kind = "uuid" -> 2000
       [] id.kind = "local" -> 3000 [] OTHER -> 0) + id.n

StudentOrder == <<"S1", "S2">>

StudentRank(sid) == CHOOSE i \in 1..Len(StudentOrder) : StudentOrder[i] = sid

\* the elements of list (their ranks all differ) by ascending rank
SortByRank(list, Rank(_)) ==
    [i \in 1..Len(list) |->
        list[CHOOSE j \in 1..Len(list) :
                Cardinality({k \in 1..Len(list) : Rank(list[k]) < Rank(list[j])}) = i - 1]]

InPullWindow(r, t) == r.timestamp >= t - PULL_WINDOW

\* IndexedDBDriver.load: every student, the attendance of the last 30 days
IdbLoad(st, t) ==
    [students |-> st.students,
     attendanceRecords |-> SelectSeq(st.attendanceRecords, LAMBDA r : InPullWindow(r, t)),
     lastSync |-> st.lastSync,
     fullSyncCompleted |-> IF Truthy(st.fullSyncCompleted) THEN "true" ELSE "false"]

\* the attendance loop of IndexedDBDriver.save: add unless the composite key is
\* stored; add() of a stored id is a ConstraintError
RECURSIVE IdbAddLoop(_, _, _)
IdbAddLoop(records, i, acc) ==
    IF i > Len(records) \/ acc.threw THEN acc
    ELSE LET record == records[i]
             isDuplicate == \E k \in 1..Len(acc.rows) :
                               CompositeKey(acc.rows[k]) = CompositeKey(record)
             idTaken == \E k \in 1..Len(acc.rows) : acc.rows[k].id = record.id
         IN  IF isDuplicate THEN IdbAddLoop(records, i + 1, acc)
             ELSE IF idTaken THEN [acc EXCEPT !.threw = TRUE]
             ELSE IdbAddLoop(records, i + 1,
                             [acc EXCEPT !.rows = Append(acc.rows, record)])

IdbSaveThrows(st, data) ==
    IdbAddLoop(data.attendanceRecords, 1, [rows |-> st.attendanceRecords, threw |-> FALSE]).threw

\* IndexedDBDriver.save: put students by studentId, add attendance, put metadata
IdbSave(st, data) ==
    [students |-> SortByRank(MapValues(st.students \o data.students, LAMBDA x : x.studentId),
                             LAMBDA x : StudentRank(x.studentId)),
     attendanceRecords |->
        SortByRank(IdbAddLoop(data.attendanceRecords, 1,
                              [rows |-> st.attendanceRecords, threw |-> FALSE]).rows,
                   LAMBDA r : IdRank(r.id)),
     lastSync |-> IF data.lastSync # NoSync THEN data.lastSync ELSE st.lastSync,
     fullSyncCompleted |-> IF data.fullSyncCompleted # "undefined"
                           THEN data.fullSyncCompleted ELSE st.fullSyncCompleted]

\* LocalStorageDriver.load: the parsed blob as it was written
LsLoad(st, t) == st

\* a save that writes the given lists over the stored blob
LsSaveOverwrite(st, data) ==
    [students |-> MapValues(data.students, LAMBDA x : x.studentId),
     attendanceRecords |-> MapValues(data.attendanceRecords, CompositeKey),
     lastSync |-> IF data.lastSync # NoSync THEN data.lastSync ELSE st.lastSync,
     fullSyncCompleted |-> "undefined"]

\* LocalStorageDriver.save: read, merge, deduplicate by key, write; the blob has
\* no fullSyncCompleted
LsSave(st, data) ==
    [students |-> MapValues(st.students \o data.students, LAMBDA x : x.studentId),
     attendanceRecords |-> MapValues(st.attendanceRecords \o data.attendanceRecords, CompositeKey),
     lastSync |-> IF data.lastSync # NoSync THEN data.lastSync ELSE st.lastSync,
     fullSyncCompleted |-> "undefined"]

\* a row of the file-backed store: the columns saveToFileSystem serialises
\* (no id, no _dirty)
SqliteStudentRow(s) ==
    [id |-> NoId, studentId |-> s.studentId, name |-> s.name, dirty |-> FALSE]

SqliteAttendanceRow(r) == [r EXCEPT !.id = NoId]

\* an INSERT without OR REPLACE and without the unique index
SqliteInsertStudents(rows, students, i) ==
    rows \o [k \in 1..Len(students) |-> SqliteStudentRow(students[k])]

\* saveStudents: INSERT OR REPLACE on the unique student_id; the replaced row
\* is deleted and the new one gets the next row id
RECURSIVE SqliteSaveStudents(_, _, _)
SqliteSaveStudents(rows, students, i) ==
    IF i > Len(students) THEN rows
    ELSE SqliteSaveStudents(
            Append(SelectSeq(rows, LAMBDA x : x.studentId # students[i].studentId),
                   SqliteStudentRow(students[i])),
            students, i + 1)

\* an INSERT without OR IGNORE and without the unique index
SqliteInsertAll(rows, records, i) ==
    rows \o [k \in 1..Len(records) |-> SqliteAttendanceRow(records[k])]

\* saveAttendanceRecords: INSERT OR IGNORE on the unique (student_id, timestamp, type)
RECURSIVE SqliteSaveAttendance(_, _, _)
SqliteSaveAttendance(rows, records, i) ==
    IF i > Len(records) THEN rows
    ELSE SqliteSaveAttendance(
            IF \E k \in 1..Len(rows) : CompositeKey(rows[k]) = CompositeKey(records[i])
            THEN rows ELSE Append(rows, SqliteAttendanceRow(records[i])),
            records, i + 1)

\* saveToFileSystem
SqliteSave(st, data) ==
    [students |-> SqliteSaveStudents(st.students, data.students, 1),
     attendanceRecords |-> SqliteSaveAttendance(st.attendanceRecords, data.attendanceRecords, 1),
     lastSync |-> IF data.lastSync # NoSync THEN data.lastSync ELSE st.lastSync,
     fullSyncCompleted |-> IF data.fullSyncCompleted # "undefined"
                           THEN data.fullSyncCompleted ELSE st.fullSyncCompleted]

\* getFromFileSystem: rows come back under their numeric row ids (row ids are
\* kept dense here: the n-th row of a table has id n), students newest first,
\* attendance of the last 30 days newest first
SqliteLoad(st, t) ==
    [students |-> Reverse([i \in 1..Len(st.students) |->
                              [st.students[i] EXCEPT !.id = NumId(i)]]),
     attendanceRecords |->
        SortDesc(SelectSeq([i \in 1..Len(st.attendanceRecords) |->
                               [st.attendanceRecords[i] EXCEPT !.id = NumId(i)]],
                           LAMBDA r : InPullWindow(r, t))),
     lastSync |-> st.lastSync,
     fullSyncCompleted |-> IF Truthy(st.fullSyncCompleted) THEN "true" ELSE "false"]

\* driver.load(): the embedded driver throws when it fails; the file-backed and
\* the flat driver catch the failure and return an empty envelope
DriverLoadThrows(d, fl) == d = "indexeddb" /\ d \in fl

DriverLoad(d, st, fl, t) ==
    IF d \in fl THEN EmptyData
    ELSE CASE d = "electron-sqlite" -> SqliteLoad(st[d], t)
           [] d = "indexeddb" -> IdbLoad(st[d], t)
           [] OTHER -> LsLoad(st[d], t)

\* driver.save(data) throws
DriverSaveThrows(d, st, fl, data) ==
    \/ d \in fl
    \/ d \in saveFailing
    \/ d = "indexeddb" /\ IdbSaveThrows(st[d], data)

\* driver.save(data), when it does not throw
DriverSave(d, st, data) ==
    CASE d = "electron-sqlite" -> SqliteSave(st[d], data)
      [] d = "indexeddb" -> IdbSave(st[d], data)
      [] OTHER -> LsSave(st[d], data)

\* ---------------------------------------------------------------- Storage Manager
Unknown == "unknown"

\* the first driver of Drivers[from..] that satisfies Fits, or Unknown
FirstDriverFrom(from, Fits(_)) ==
    IF \E i \in from..Len(Drivers) : Fits(Drivers[i])
    THEN Drivers[CHOOSE i \in from..Len(Drivers) :
                    Fits(Drivers[i]) /\ \A j \in from..(i - 1) : ~Fits(Drivers[j])]
    ELSE Unknown

\* a slip: the first available driver is adopted without a trial load
ManagerInitNoTrial(cur, av, fl) ==
    IF cur # Unknown THEN cur
    ELSE FirstDriverFrom(1, LAMBDA d : d \in av)

\* StorageManager.init: the first available driver whose trial load succeeds
ManagerInit(cur, av, fl) ==
    IF cur # Unknown THEN cur
    ELSE FirstDriverFrom(1, LAMBDA d : d \in av /\ ~DriverLoadThrows(d, fl))

\* a slip: the fallback walk starts at the head of the list
ManagerLoadFromTop(cur, st, av, fl, t) ==
    LET c == ManagerInit(cur, av, fl)
        fb == FirstDriverFrom(1, LAMBDA d : d \in av /\ ~DriverLoadThrows(d, fl))
    IN  IF c = Unknown THEN [ok |-> FALSE, cur |-> Unknown, data |-> EmptyData]
        ELSE IF ~DriverLoadThrows(c, fl)
             THEN [ok |-> TRUE, cur |-> c, data |-> DriverLoad(c, st, fl, t)]
        ELSE IF fb # Unknown
             THEN [ok |-> TRUE, cur |-> fb, data |-> DriverLoad(fb, st, fl, t)]
        ELSE [ok |-> FALSE, cur |-> c, data |-> EmptyData]

\* StorageManager.load: [ok, cur, data]
ManagerLoad(cur, st, av, fl, t) ==
    LET c == ManagerInit(cur, av, fl)
        fb == FirstDriverFrom(DriverIndex(c) + 1,
                              LAMBDA d : d \in av /\ ~DriverLoadThrows(d, fl))
    IN  IF c = Unknown THEN [ok |-> FALSE, cur |-> Unknown, data |-> EmptyData]
        ELSE IF ~DriverLoadThrows(c, fl)
             THEN [ok |-> TRUE, cur |-> c, data |-> DriverLoad(c, st, fl, t)]
        ELSE IF fb # Unknown
             THEN [ok |-> TRUE, cur |-> fb, data |-> DriverLoad(fb, st, fl, t)]
        ELSE [ok |-> FALSE, cur |-> c, data |-> EmptyData]

\* a slip: when every driver has failed the error is logged, not thrown
ManagerSaveQuiet(cur, st, av, fl, data) ==
    LET c == ManagerInit(cur, av, fl)
        fb == FirstDriverFrom(DriverIndex(c) + 1,
                              LAMBDA d : d \in av /\ ~DriverSaveThrows(d, st, fl, data))
    IN  IF c = Unknown THEN [ok |-> FALSE, cur |-> Unknown, store |-> st]
        ELSE IF ~DriverSaveThrows(c, st, fl, data)
             THEN [ok |-> TRUE, cur |-> c, store |-> [st EXCEPT ![c] = DriverSave(c, st, data)]]
        ELSE IF fb # Unknown
             THEN [ok |-> TRUE, cur |-> fb, store |-> [st EXCEPT ![fb] = DriverSave(fb, st, data)]]
        ELSE [ok |-> TRUE, cur |-> c, store |-> st]

\* a slip: the fallback driver is written but not made the current driver
ManagerSaveNoSwitch(cur, st, av, fl, data) ==
    LET c == ManagerInit(cur, av, fl)
        fb == FirstDriverFrom(DriverIndex(c) + 1,
                              LAMBDA d : d \in av /\ ~DriverSaveThrows(d, st, fl, data))
    IN  IF c = Unknown THEN [ok |-> FALSE, cur |-> Unknown, store |-> st]
        ELSE IF ~DriverSaveThrows(c, st, fl, data)
             THEN [ok |-> TRUE, cur |-> c, store |-> [st EXCEPT ![c] = DriverSave(c, st, data)]]
        ELSE IF fb # Unknown
             THEN [ok |-> TRUE, cur |-> c, store |-> [st EXCEPT ![fb] = DriverSave(fb, st, data)]]
        ELSE [ok |-> FALSE, cur |-> c, store |-> st]

\* StorageManager.save: [ok, cur, store]
ManagerSave(cur, st, av, fl, data) ==
    LET c == ManagerInit(cur, av, fl)
        fb == FirstDriverFrom(DriverIndex(c) + 1,
                              LAMBDA d : d \in av /\ ~DriverSaveThrows(d, st, fl, data))
    IN  IF c = Unknown THEN [ok |-> FALSE, cur |-> Unknown, store |-> st]
        ELSE IF ~DriverSaveThrows(c, st, fl, data)
             THEN [ok |-> TRUE, cur |-> c, store |-> [st EXCEPT ![c] = DriverSave(c, st, data)]]
        ELSE IF fb # Unknown
             THEN [ok |-> TRUE, cur |-> fb, store |-> [st EXCEPT ![fb] = DriverSave(fb, st, data)]]
        ELSE [ok |-> FALSE, cur |-> c, store |-> st]

\* driver.clear() throws when the driver fails
DriverClearThrows(d, fl) == d \in fl

\* StorageManager.clear: [ok, cur, store]; the active driver's clear, nothing else
ManagerClear(cur, st, av, fl) ==
    LET c == ManagerInit(cur, av, fl)
    IN  IF c = Unknown THEN [ok |-> FALSE, cur |-> Unknown, store |-> st]
        ELSE IF DriverClearThrows(c, fl) THEN [ok |-> FALSE, cur |-> c, store |-> st]
        ELSE [ok |-> TRUE, cur |-> c, store |-> [st EXCEPT ![c] = EmptyData]]

\* StorageManager.migrate: [ok, cur, store]; init, find the target, ask it
\* whether it is available, this.load(), target.save(data), switch
ManagerMigrate(cur, st, av, fl, toDriverName, t) ==
    LET c == ManagerInit(cur, av, fl)
        ld == ManagerLoad(c, st, av, fl, t)
    IN  IF c = Unknown THEN [ok |-> FALSE, cur |-> Unknown, store |-> st]
        ELSE IF toDriverName \notin DriverNames THEN [ok |-> FALSE, cur |-> c, store |-> st]
        ELSE IF toDriverName \notin av THEN [ok |-> FALSE, cur |-> c, store |-> st]
        ELSE IF ~ld.ok THEN [ok |-> FALSE, cur |-> ld.cur, store |-> st]
        ELSE IF DriverSaveThrows(toDriverName, st, fl, ld.data)
             THEN [ok |-> FALSE, cur |-> ld.cur, store |-> st]
        ELSE [ok |-> TRUE, cur |-> toDriverName,
              store |-> [st EXCEPT ![toDriverName] = DriverSave(toDriverName, st, ld.data)]]

\* StorageManager.getCurrentDriverName
getCurrentDriverName(cur) == cur

\* getFromLocalStorage: a failed load is an empty envelope
getFromLocalStorage(cur, st, av, fl, t) ==
    ManagerLoad(cur, st, av, fl, t)

\* ---------------------------------------------------------------- remote backend
\* ids the backend assigns: one per row of a table
NextUuid(table) == UuidId(Len(table) + 1)

\* an id no row of the table has or had, rows having been deleted meanwhile
FreshUuid(table, n) == UuidId(Len(table) + n + 1)

\* the row an insert into attendance_records creates (student_database_id is
\* coerced to null unless it is a UUID); by: who inserted it
AttendanceRow(id, record, by) ==
    [id |-> id,
     studentDatabaseId |-> IF isUUID(record.studentDatabaseId)
                           THEN record.studentDatabaseId ELSE NoId,
     studentId |-> record.studentId, type |-> record.type,
     timestamp |-> record.timestamp, course |-> record.course, by |-> by]

\* the local entry built from a backend row
FromServer(row) ==
    [id |-> row.id, studentDatabaseId |-> row.studentDatabaseId,
     studentId |-> row.studentId, type |-> row.type,
     timestamp |-> row.timestamp, course |-> row.course]

\* the local student built from a backend row
StudentFromServer(row) ==
    [id |-> row.id, studentId |-> row.studentId, name |-> row.name, dirty |-> FALSE]

\* the outcomes of n remote calls: any of them may fail; all fail off line
Outcomes(n) ==
    IF online THEN [1..n -> BOOLEAN] ELSE {[i \in 1..n |-> FALSE]}

\* ---------------------------------------------------------------- push pass
\* a slip: the student is created remotely but keeps its placeholder locally
PushStudentStepKeepId(acc, student, ok) ==
    LET row == [id |-> NextUuid(acc.remoteStudents), studentId |-> student.studentId,
                name |-> student.name]
    IN  IF ~ok THEN acc
        ELSE [acc EXCEPT
                !.remoteStudents = Append(acc.remoteStudents, row),
                !.syncCount = acc.syncCount + 1,
                !.pushedStudents = acc.pushedStudents \cup
                    {[old |-> student.id, new |-> row.id, studentId |-> student.studentId]}]

\* one local_ student: insert it, and on success replace it by the server version
PushStudentStep(acc, student, ok) ==
    LET row == [id |-> NextUuid(acc.remoteStudents),
                studentId |-> student.studentId, name |-> student.name]
    IN  IF ~ok THEN acc
        ELSE [acc EXCEPT
                !.students = [i \in 1..Len(acc.students) |->
                                IF acc.students[i].id = student.id
                                THEN StudentFromServer(row) ELSE acc.students[i]],
                !.remoteStudents = Append(acc.remoteStudents, row),
                !.syncCount = acc.syncCount + 1,
                !.pushedStudents = acc.pushedStudents \cup
                    {[old |-> student.id, new |-> row.id, studentId |-> student.studentId]}]

RECURSIVE PushStudents(_, _, _, _)
PushStudents(acc, localStudents, oks, i) ==
    IF i > Len(localStudents) THEN acc
    ELSE PushStudents(PushStudentStep(acc, localStudents[i], oks[i]), localStudents, oks, i + 1)

\* a slip: the grace period is not applied
IsPushCandidateNoGrace(r, t, electron) ==
    /\ ~isUUID(r.id) \/ startsWithLocal(r.id)
    /\ r.timestamp >= t - PUSH_WINDOW

\* the filter that selects the attendance entries to push
IsPushCandidate(r, t, electron) ==
    /\ ~isUUID(r.id) \/ startsWithLocal(r.id)
    /\ r.timestamp >= t - PUSH_WINDOW
    /\ electron \/ t - r.timestamp > PUSH_GRACE

\* a slip: the lookup always filters on student_database_id, null or not
DuplicateMatchesByDatabaseId(ra, record) ==
    SelectSeq(ra, LAMBDA row :
        /\ row.type = record.type
        /\ row.timestamp >= record.timestamp - FUZZY_WINDOW
        /\ row.timestamp <= record.timestamp + FUZZY_WINDOW
        /\ isUUID(record.studentDatabaseId)
        /\ row.studentDatabaseId = record.studentDatabaseId)

\* the rows the idempotency lookup of the push pass matches
DuplicateMatches(ra, record) ==
    SelectSeq(ra, LAMBDA row :
        /\ row.type = record.type
        /\ row.timestamp >= record.timestamp - FUZZY_WINDOW
        /\ row.timestamp <= record.timestamp + FUZZY_WINDOW
        /\ IF isUUID(record.studentDatabaseId)
           THEN row.studentDatabaseId = record.studentDatabaseId
           ELSE row.studentId = record.studentId)

ReplaceById(records, id, e) ==
    [i \in 1..Len(records) |-> IF records[i].id = id THEN e ELSE records[i]]

\* one ready entry: look it up (limit(1), no order: either end of the matches),
\* adopt the row found, or else insert and adopt the new row
PushRecordStep(acc, record, qOk, insOk, pickLast) ==
    LET m == DuplicateMatches(acc.remoteAttendance, record)
        server == IF pickLast THEN m[Len(m)] ELSE m[1]
        row == AttendanceRow(NextUuid(acc.remoteAttendance), record, "push")
    IN  IF qOk /\ Len(m) > 0
        THEN [acc EXCEPT
                !.attendanceRecords = ReplaceById(acc.attendanceRecords, record.id, FromServer(server)),
                !.replacedAny = TRUE,
                !.pushedRecords = acc.pushedRecords \cup {[old |-> record.id, new |-> server.id]}]
        ELSE IF insOk
        THEN [acc EXCEPT
                !.attendanceRecords = ReplaceById(acc.attendanceRecords, record.id, FromServer(row)),
                !.remoteAttendance = Append(acc.remoteAttendance, row),
                !.syncCount = acc.syncCount + 1,
                !.pushedRecords = acc.pushedRecords \cup {[old |-> record.id, new |-> row.id]}]
        ELSE [acc EXCEPT !.failedRecords = acc.failedRecords \cup {record.id}]

\* a slip: the first record that fails ends the loop
RECURSIVE PushRecordsStopAtFailure(_, _, _, _, _, _)
PushRecordsStopAtFailure(acc, localRecords, qOks, insOks, pickLast, i) ==
    IF i > Len(localRecords) \/ acc.failedRecords # {} THEN acc
    ELSE PushRecordsStopAtFailure(
            PushRecordStep(acc, localRecords[i], qOks[i], insOks[i], pickLast),
            localRecords, qOks, insOks, pickLast, i + 1)

\* the loop over the ready entries: each one in its own try/catch
RECURSIVE PushRecords(_, _, _, _, _, _)
PushRecords(acc, localRecords, qOks, insOks, pickLast, i) ==
    IF i > Len(localRecords) THEN acc
    ELSE PushRecords(PushRecordStep(acc, localRecords[i], qOks[i], insOks[i], pickLast),
                     localRecords, qOks, insOks, pickLast, i + 1)

\* one dirty student: update its backend row (single() fails when no row has
\* the id), and on success replace it by the server version
PushDirtyStep(acc, s, ok) ==
    IF ok /\ \E k \in 1..Len(acc.remoteStudents) : acc.remoteStudents[k].id = s.id
    THEN [acc EXCEPT
            !.students = [i \in 1..Len(acc.students) |->
                            IF acc.students[i].id = s.id
                            THEN [id |-> s.id, studentId |-> s.studentId,
                                  name |-> s.name, dirty |-> FALSE]
                            ELSE acc.students[i]],
            !.remoteStudents = [k \in 1..Len(acc.remoteStudents) |->
                            IF acc.remoteStudents[k].id = s.id
                            THEN [id |-> s.id, studentId |-> s.studentId, name |-> s.name]
                            ELSE acc.remoteStudents[k]],
            !.syncCount = acc.syncCount + 1]
    ELSE acc

RECURSIVE PushDirty(_, _, _, _)
PushDirty(acc, dirtyStudents, oks, i) ==
    IF i > Len(dirtyStudents) THEN acc
    ELSE PushDirty(PushDirtyStep(acc, dirtyStudents[i], oks[i]), dirtyStudents, oks, i + 1)

IsDirty(s) == ~startsWithLocal(s.id) /\ s.dirty

\* syncLocalToSupabase up to its save: the rewritten envelope, the backend
\* tables and the counters
PushResult(localData, rs, ra, t, electron, sOks, qOks, insOks, pickLast, dOks) ==
    LET start == [students |-> localData.students,
                  attendanceRecords |-> localData.attendanceRecords,
                  remoteStudents |-> rs, remoteAttendance |-> ra,
                  syncCount |-> 0, replacedAny |-> FALSE,
                  pushedStudents |-> {}, pushedRecords |-> {}, failedRecords |-> {}]
        a1 == PushStudents(start,
                           SelectSeq(localData.students, LAMBDA s : startsWithLocal(s.id)),
                           sOks, 1)
        a2 == PushRecords(a1,
                          SelectSeq(localData.attendanceRecords,
                                    LAMBDA r : IsPushCandidate(r, t, electron)),
                          qOks, insOks, pickLast, 1)
    IN  PushDirty(a2, SelectSeq(a2.students, IsDirty), dOks, 1)

\* ---------------------------------------------------------------- pull pass
\* a slip: the date filter is applied whatever the bootstrap flag says
AttendanceQueryAlwaysWindowed(needsFullDownload, t) ==
    [filtered |-> TRUE, gte |-> t - PULL_WINDOW]

\* the attendance request of the pull pass: everything on the first sync, the
\* last 30 days afterwards
AttendanceQuery(needsFullDownload, t) ==
    IF needsFullDownload THEN [filtered |-> FALSE, gte |-> 0]
    ELSE [filtered |-> TRUE, gte |-> t - PULL_WINDOW]

\* the student request of the pull pass: the whole table
StudentQuery == [filtered |-> FALSE, gte |-> 0]

RunQuery(rows, q) ==
    IF q.filtered THEN SelectSeq(rows, LAMBDA r : r.timestamp >= q.gte) ELSE rows

\* a slip: only placeholder ids count as local-only
IsLocalOnlyPlaceholder(r, t) ==
    /\ startsWithLocal(r.id)
    /\ r.timestamp >= t - PULL_WINDOW

IsLocalOnly(r, t) ==
    /\ ~isUUID(r.id) \/ startsWithLocal(r.id)
    /\ r.timestamp >= t - PULL_WINDOW

\* a slip: the fetched rows are taken as they are
OverlayNone(students, localStudents) == students

\* {...s, ...dirtyMap[s.id]}
Overlay(students, localStudents) ==
    [i \in 1..Len(students) |->
        IF \E k \in 1..Len(localStudents) :
              IsDirty(localStudents[k]) /\ localStudents[k].id = students[i].id
        THEN LET k == CHOOSE k \in 1..Len(localStudents) :
                        /\ IsDirty(localStudents[k]) /\ localStudents[k].id = students[i].id
                        /\ \A j \in (k + 1)..Len(localStudents) :
                              ~(IsDirty(localStudents[j]) /\ localStudents[j].id = students[i].id)
             IN  localStudents[k]
        ELSE students[i]]

\* what syncSupabaseToLocal saves, given what it loaded and what it fetched
PullMerge(localData, fetchedStudents, fetchedAttendance, t) ==
    LET localOnlyStudents == SelectSeq(localData.students, LAMBDA s : startsWithLocal(s.id))
        localOnlyRecords == SelectSeq(localData.attendanceRecords, LAMBDA r : IsLocalOnly(r, t))
        students == [i \in 1..Len(fetchedStudents) |-> StudentFromServer(fetchedStudents[i])]
        attendanceRecords == [i \in 1..Len(fetchedAttendance) |-> FromServer(fetchedAttendance[i])]
        deduped == Deduped(attendanceRecords \o localOnlyRecords)
    IN  [students |-> IF Len(students) = 0 THEN localOnlyStudents
                      ELSE Overlay(students, localData.students) \o localOnlyStudents,
         attendanceRecords |-> IF Len(attendanceRecords) = 0 THEN localOnlyRecords ELSE deduped,
         lastSync |-> t,
         fullSyncCompleted |-> "true"]

\* ---------------------------------------------------------------- sync orchestrator
\* a slip: the negation of forceSync is lost
ThrottledWhenForced(forceSync, t, last) == forceSync /\ t - last < MIN_SYNC_INTERVAL

\* the throttle of performSync
Throttled(forceSync, t, last) == ~forceSync /\ t - last < MIN_SYNC_INTERVAL

\* performSync up to its first await: [lastSyncTime, started]
performSync(forceSync, t, last) ==
    IF Throttled(forceSync, t, last) THEN [lastSyncTime |-> last, started |-> 0]
    ELSE [lastSyncTime |-> t, started |-> 1]

\* lastOp of a handler that neither requests a sync nor touches the data
Idle == [op |-> "idle"]

\* lastOp of a trigger: the calls of performSync it made (forced, non-forced)
\* and the cycles the non-forced call started
Requested(forcedCall, normalCall, started) ==
    [op |-> "request", forcedCall |-> forcedCall, normalCall |-> normalCall,
     started |-> started]

Inflight == pendingPush + pendingPull

storageVars == <<avail, failing, saveFailing, currentDriver, store>>

remoteVars == <<remoteStudents, remoteAttendance>>

\* the setInterval callback of startAutoSync
TimerTickUpTo(limit) ==
    /\ now >= nextTimer
    /\ LET transition == online /\ ~lastKnownOnlineState
           p1 == IF transition THEN performSync(TRUE, now, lastSyncTime)
                 ELSE [lastSyncTime |-> lastSyncTime, started |-> 0]
           p2 == IF online THEN performSync(FALSE, now, p1.lastSyncTime)
                 ELSE [lastSyncTime |-> p1.lastSyncTime, started |-> 0]
       IN  /\ Inflight + p1.started + p2.started <= limit
           /\ lastSyncTime' = p2.lastSyncTime
           /\ pendingPush' = pendingPush + p1.started + p2.started
           /\ lastOp' = Requested(transition, online, p2.started)
    /\ lastKnownOnlineState' = online
    /\ isOnline' = online
    /\ nextTimer' = now + REGULAR_SYNC_INTERVAL
    /\ UNCHANGED <<now, online, storageVars, remoteVars, startupCheckPending,
                   pendingPull, created, addInFlight, others, fnVars, rtVars>>

TimerTick == TimerTickUpTo(MaxInflight)

\* connectivity returns; the online event may or may not be delivered
GoOnlineUpTo(limit, event) ==
    /\ ~online
    /\ online' = TRUE
    /\ LET p == IF event THEN performSync(FALSE, now, lastSyncTime)
                ELSE [lastSyncTime |-> lastSyncTime, started |-> 0]
       IN  /\ Inflight + p.started <= limit
           /\ lastSyncTime' = p.lastSyncTime
           /\ pendingPush' = pendingPush + p.started
           /\ lastOp' = IF event THEN Requested(FALSE, TRUE, p.started) ELSE Idle
    /\ isOnline' = IF event THEN TRUE ELSE isOnline
    /\ UNCHANGED <<now, storageVars, remoteVars, lastKnownOnlineState, startupCheckPending,
                   nextTimer, pendingPull, created, addInFlight, others, fnVars, rtVars>>

GoOnline(event) == GoOnlineUpTo(MaxInflight, event)

\* connectivity is lost and the offline event is delivered
GoOffline ==
    /\ online
    /\ online' = FALSE
    /\ isOnline' = FALSE
    /\ lastOp' = Idle
    /\ UNCHANGED <<now, storageVars, remoteVars, lastKnownOnlineState, lastSyncTime,
                   startupCheckPending, nextTimer, pendingPush, pendingPull, created, addInFlight,
                   others, fnVars, rtVars>>

\* the constructor's setTimeout: catch an online state the events missed
StartupCheckUpTo(limit) ==
    /\ startupCheckPending
    /\ now >= StartNow + STARTUP_DELAY
    /\ startupCheckPending' = FALSE
    /\ LET hit == online /\ ~isOnline
           p == IF hit THEN performSync(FALSE, now, lastSyncTime)
                ELSE [lastSyncTime |-> lastSyncTime, started |-> 0]
       IN  /\ Inflight + p.started <= limit
           /\ lastSyncTime' = p.lastSyncTime
           /\ pendingPush' = pendingPush + p.started
           /\ isOnline' = IF hit THEN TRUE ELSE isOnline
           /\ lastOp' = IF hit THEN Requested(FALSE, TRUE, p.started) ELSE Idle
    /\ UNCHANGED <<now, online, storageVars, remoteVars, lastKnownOnlineState, nextTimer,
                   pendingPull, created, addInFlight, others, fnVars, rtVars>>

StartupCheck == StartupCheckUpTo(MaxInflight)

\* the public forceSync: it calls performSync() without the force flag
ForceSyncUpTo(limit) ==
    /\ LET p == performSync(FALSE, now, lastSyncTime)
       IN  /\ Inflight + p.started <= limit
           /\ lastSyncTime' = p.lastSyncTime
           /\ pendingPush' = pendingPush + p.started
           /\ lastOp' = Requested(FALSE, TRUE, p.started)
    /\ UNCHANGED <<now, online, storageVars, remoteVars, isOnline, lastKnownOnlineState,
                   startupCheckPending, nextTimer, pendingPull, created, addInFlight, others, fnVars, rtVars>>

ForceSync == ForceSyncUpTo(MaxInflight)

\* a slip: the catch of performSync throws the error on
performSyncRethrows(threw) == threw

\* what the caller of performSync sees of an exception thrown inside the
\* cycle: the catch logs it and returns
performSyncRaises(threw) == FALSE

\* syncLocalToSupabase has no catch of its own around the save: a save that
\* throws leaves the pass
syncLocalToSupabaseRaises(saveThrew) == saveThrew

\* syncSupabaseToLocal catches whatever its body throws
syncSupabaseToLocalRaises(threw) == FALSE

\* no envelope is held by a suspended operation
NoLoad == [held |-> FALSE]

\* the operations that load the envelope, wait for the network and save; two
\* calls of flushUpdates can be in progress at once, the field flushTimeout
\* being cleared as soon as the first one awaits its load
Operations == {"push", "pull", "flush", "flush2"}

\* the state of the realtime ingestor after construction, nothing suspended
RealtimeInit ==
    /\ pendingStudentUpdates = <<>>
    /\ pendingAttendanceUpdates = <<>>
    /\ suspended = [k \in Operations |-> NoLoad]
    /\ flushTimeout = FALSE
    /\ flushTimers = 0

\* the result of the load an operation did before it was suspended, under the
\* driver that is active when it resumes
Held(k) == [ok |-> suspended[k].ok, cur |-> currentDriver, data |-> suspended[k].data]

\* the rest of performSync, first half: syncLocalToSupabase on the envelope ld
\* it loaded, and its save; a save that throws ends the cycle before the pull
\* pass
PushPassFrom(ld) ==
    /\ pendingPush > 0
    /\ LET nStudents == Len(SelectSeq(ld.data.students, LAMBDA s : startsWithLocal(s.id)))
           nRecords == Len(SelectSeq(ld.data.attendanceRecords,
                                     LAMBDA r : IsPushCandidate(r, now, isElectron)))
           nDirty == Len(SelectSeq(ld.data.students, IsDirty))
       IN  \E sOks \in Outcomes(nStudents), qOks \in Outcomes(nRecords),
              insOks \in Outcomes(nRecords), dOks \in Outcomes(nDirty),
              pickLast \in BOOLEAN :
             LET res == PushResult(ld.data, remoteStudents, remoteAttendance, now,
                                   isElectron, sOks, qOks, insOks, pickLast, dOks)
                 changed == res.syncCount > 0 \/ res.replacedAny
                 sv == ManagerSave(ld.cur, store, avail, failing,
                                   [students |-> res.students,
                                    attendanceRecords |-> res.attendanceRecords,
                                    lastSync |-> now, fullSyncCompleted |-> "undefined"])
             IN  /\ remoteStudents' = res.remoteStudents
                 /\ remoteAttendance' = res.remoteAttendance
                 /\ store' = IF changed THEN sv.store ELSE store
                 /\ currentDriver' = IF changed THEN sv.cur ELSE ld.cur
                 /\ pendingPull' = IF changed /\ ~sv.ok THEN pendingPull ELSE pendingPull + 1
                 /\ lastOp' = [op |-> "push", saved |-> changed /\ sv.ok,
                               failed |-> res.failedRecords,
                               raised |-> performSyncRaises(
                                   syncLocalToSupabaseRaises(changed /\ ~sv.ok)),
                               lookupsOk |-> \A i \in 1..nRecords : qOks[i],
                               students |-> res.pushedStudents,
                               records |-> res.pushedRecords]
    /\ pendingPush' = pendingPush - 1
    /\ UNCHANGED <<now, online, avail, failing, saveFailing, isOnline, lastKnownOnlineState, lastSyncTime,
                   startupCheckPending, nextTimer, created, addInFlight, others, fnVars>>

\* the push pass with nothing else running between its load and its save
PushPass ==
    /\ suspended["push"] = NoLoad
    /\ PushPassFrom(getFromLocalStorage(currentDriver, store, avail, failing, now))
    /\ UNCHANGED rtVars

\* an operation has loaded the envelope and waits for the network
Suspend(k) ==
    /\ suspended[k] = NoLoad
    /\ LET ld == getFromLocalStorage(currentDriver, store, avail, failing, now)
       IN  /\ suspended' = [suspended EXCEPT ![k] = [held |-> TRUE, ok |-> ld.ok,
                                                     data |-> ld.data]]
           /\ currentDriver' = ld.cur
    /\ lastOp' = [op |-> "load", by |-> k]
    /\ UNCHANGED <<now, online, avail, failing, saveFailing, store, remoteVars, isOnline,
                   lastKnownOnlineState, lastSyncTime, startupCheckPending, nextTimer,
                   pendingPush, pendingPull, created, addInFlight, others, fnVars,
                   pendingStudentUpdates, pendingAttendanceUpdates>>

\* the push pass up to its first remote call
PushLoad == pendingPush > 0 /\ Suspend("push") /\ UNCHANGED <<flushTimeout, flushTimers>>

\* the push pass from its first remote call on
PushResume ==
    /\ suspended["push"] # NoLoad
    /\ PushPassFrom(Held("push"))
    /\ suspended' = [suspended EXCEPT !["push"] = NoLoad]
    /\ UNCHANGED <<pendingStudentUpdates, pendingAttendanceUpdates, flushTimeout, flushTimers>>

\* a slip: one response without an error is enough to merge and save
FetchSucceededEither(studentsOk, attendanceOk) == studentsOk \/ attendanceOk

\* !studentsResponse.error && !attendanceResponse.error
FetchSucceeded(studentsOk, attendanceOk) == studentsOk /\ attendanceOk

\* the rest of performSync, second half: syncSupabaseToLocal on the envelope
\* ld it loaded
PullPassFrom(ld) ==
    /\ pendingPull > 0
    /\ LET needsFullDownload == ~Truthy(ld.data.fullSyncCompleted)
           query == AttendanceQuery(needsFullDownload, now)
       IN  \E studentsOk \in (IF online THEN BOOLEAN ELSE {FALSE}),
              attendanceOk \in (IF online THEN BOOLEAN ELSE {FALSE}) :
             LET fetchOk == FetchSucceeded(studentsOk, attendanceOk)
                 fetchedStudents == Reverse(RunQuery(remoteStudents, StudentQuery))
                 fetchedAttendance == SortDesc(RunQuery(remoteAttendance, query))
                 merged == PullMerge(ld.data, fetchedStudents, fetchedAttendance, now)
                 sv == ManagerSave(ld.cur, store, avail, failing, merged)
             IN  /\ store' = IF fetchOk THEN sv.store ELSE store
                 /\ currentDriver' = IF fetchOk THEN sv.cur ELSE ld.cur
                 /\ lastOp' = [op |-> "pull", fetched |-> fetchOk, loaded |-> ld.data,
                               requestsOk |-> studentsOk /\ attendanceOk,
                               raised |-> performSyncRaises(
                                   syncSupabaseToLocalRaises(
                                       ~(studentsOk /\ attendanceOk) \/ (fetchOk /\ ~sv.ok))),
                               saved |-> fetchOk /\ sv.ok,
                               data |-> merged,
                               flag |-> ld.data.fullSyncCompleted,
                               query |-> query, studentQuery |-> StudentQuery]
    /\ pendingPull' = pendingPull - 1
    /\ UNCHANGED <<now, online, avail, failing, saveFailing, remoteVars, isOnline, lastKnownOnlineState,
                   lastSyncTime, startupCheckPending, nextTimer, pendingPush, created, addInFlight,
                   others, fnVars>>

\* the pull pass with nothing else running between its load and its save
PullPass ==
    /\ suspended["pull"] = NoLoad
    /\ PullPassFrom(getFromLocalStorage(currentDriver, store, avail, failing, now))
    /\ UNCHANGED rtVars

\* the pull pass up to its requests
PullLoad == pendingPull > 0 /\ Suspend("pull") /\ UNCHANGED <<flushTimeout, flushTimers>>

\* the pull pass from the answers to its requests on
PullResume ==
    /\ suspended["pull"] # NoLoad
    /\ PullPassFrom(Held("pull"))
    /\ suspended' = [suspended EXCEPT !["pull"] = NoLoad]
    /\ UNCHANGED <<pendingStudentUpdates, pendingAttendanceUpdates, flushTimeout, flushTimers>>

\* ---------------------------------------------------------------- realtime ingestor
\* payload.new or payload.old of an event that has none
NoRow == [id |-> NoId]

\* payload.new?.id || payload.old?.id
PayloadId(payload) == IF payload.new.id # NoId THEN payload.new.id ELSE payload.old.id

\* Map.set(id, payload): a queued payload of the same row is replaced in place
QueueChange(pending, payload) ==
    IF \E i \in 1..Len(pending) : PayloadId(pending[i]) = PayloadId(payload)
    THEN [i \in 1..Len(pending) |->
            IF PayloadId(pending[i]) = PayloadId(payload) THEN payload ELSE pending[i]]
    ELSE Append(pending, payload)

RemoveAt(s, k) == [i \in 1..(Len(s) - 1) |-> IF i < k THEN s[i] ELSE s[i + 1]]

\* the student both branches of processStudentChange build from payload.new:
\* the columns of the row, no _dirty
StudentFromPayload(row) ==
    [id |-> row.id, studentId |-> row.studentId, name |-> row.name, dirty |-> FALSE]

\* processStudentChange on localData (acc.students), acc.changed its result
processStudentChange(payload, acc) ==
    LET students == acc.students
        id == PayloadId(payload)
        existingIndex == IF \E i \in 1..Len(students) : students[i].id = id
                         THEN CHOOSE i \in 1..Len(students) :
                                 /\ students[i].id = id
                                 /\ \A j \in 1..(i - 1) : students[j].id # id
                         ELSE 0
    IN  IF payload.eventType = "INSERT" /\ existingIndex = 0
        THEN [acc EXCEPT !.students = <<StudentFromPayload(payload.new)>> \o students,
                         !.changed = TRUE]
        ELSE IF payload.eventType = "UPDATE" /\ existingIndex # 0
        THEN [acc EXCEPT !.students[existingIndex] = StudentFromPayload(payload.new),
                         !.changed = TRUE]
        ELSE IF payload.eventType = "DELETE" /\ existingIndex # 0
        THEN [acc EXCEPT !.students = RemoveAt(students, existingIndex), !.changed = TRUE]
        ELSE acc

\* the index of the first record with the id, 0 when there is none
IndexById(records, id) ==
    IF \E i \in 1..Len(records) : records[i].id = id
    THEN CHOOSE i \in 1..Len(records) :
            records[i].id = id /\ \A j \in 1..(i - 1) : records[j].id # id
    ELSE 0

\* the index of the first record of the event of rec, 0 when there is none
IndexByEvent(records, rec) ==
    IF \E i \in 1..Len(records) : SameEvent(records[i], rec)
    THEN CHOOSE i \in 1..Len(records) :
            SameEvent(records[i], rec) /\ \A j \in 1..(i - 1) : ~SameEvent(records[j], rec)
    ELSE 0

\* processAttendanceChange on localData (acc.attendanceRecords)
processAttendanceChange(payload, acc) ==
    LET records == acc.attendanceRecords
        byIdIdx == IndexById(records, PayloadId(payload))
        newRecord == FromServer(payload.new)
        dupIdx == IndexByEvent(records, newRecord)
    IN  IF payload.eventType = "INSERT"
        THEN [acc EXCEPT
                !.attendanceRecords =
                    IF byIdIdx # 0 THEN [records EXCEPT ![byIdIdx] = newRecord]
                    ELSE dedupeList(
                           IF dupIdx # 0
                           THEN [records EXCEPT
                                   ![dupIdx] = pickBetterRealtime(records[dupIdx], newRecord)]
                           ELSE <<newRecord>> \o records),
                !.changed = TRUE]
        ELSE IF payload.eventType = "UPDATE" /\ byIdIdx # 0
        THEN [acc EXCEPT
                !.attendanceRecords = dedupeList([records EXCEPT ![byIdIdx] = newRecord]),
                !.changed = TRUE]
        ELSE IF payload.eventType = "DELETE" /\ byIdIdx # 0
        THEN [acc EXCEPT !.attendanceRecords = RemoveAt(records, byIdIdx), !.changed = TRUE]
        ELSE acc

RECURSIVE ProcessStudentChanges(_, _, _)
ProcessStudentChanges(payloads, i, acc) ==
    IF i > Len(payloads) THEN acc
    ELSE ProcessStudentChanges(payloads, i + 1, processStudentChange(payloads[i], acc))

RECURSIVE ProcessAttendanceChanges(_, _, _)
ProcessAttendanceChanges(payloads, i, acc) ==
    IF i > Len(payloads) THEN acc
    ELSE ProcessAttendanceChanges(payloads, i + 1, processAttendanceChange(payloads[i], acc))

\* flushUpdates on the envelope ld it loaded: the queued student payloads,
\* then the attendance payloads, one save when anything changed
flushUpdatesFrom(ld) ==
    /\ pendingStudentUpdates # <<>> \/ pendingAttendanceUpdates # <<>>
    /\ LET start == [students |-> ld.data.students,
                     attendanceRecords |-> ld.data.attendanceRecords, changed |-> FALSE]
           a1 == ProcessStudentChanges(pendingStudentUpdates, 1, start)
           a2 == ProcessAttendanceChanges(pendingAttendanceUpdates, 1, a1)
           localData == [students |-> a2.students,
                         attendanceRecords |-> a2.attendanceRecords,
                         lastSync |-> ld.data.lastSync,
                         fullSyncCompleted |-> ld.data.fullSyncCompleted]
           sv == ManagerSave(ld.cur, store, avail, failing, localData)
       IN  /\ store' = IF a2.changed THEN sv.store ELSE store
           /\ currentDriver' = IF a2.changed THEN sv.cur ELSE ld.cur
           /\ lastOp' = [op |-> "flush", changed |-> a2.changed, loaded |-> ld.data,
                         processed |-> pendingStudentUpdates \o pendingAttendanceUpdates,
                         saved |-> a2.changed /\ sv.ok, data |-> localData]
    /\ pendingStudentUpdates' = <<>>
    /\ pendingAttendanceUpdates' = <<>>
    /\ UNCHANGED <<now, online, avail, failing, saveFailing, remoteVars, isOnline,
                   lastKnownOnlineState, lastSyncTime, startupCheckPending, nextTimer,
                   pendingPush, pendingPull, created, addInFlight, others, fnVars>>

\* a scheduleFlush that starts a timer at every call
scheduleFlushAlways(timeout, timers) ==
    [flushTimeout |-> TRUE, timers |-> timers + 1, started |-> TRUE]

\* scheduleFlush: nothing when a timer is set, else setTimeout
scheduleFlush(timeout, timers) ==
    IF timeout
    THEN [flushTimeout |-> timeout, timers |-> timers, started |-> FALSE]
    ELSE [flushTimeout |-> TRUE, timers |-> timers + 1, started |-> TRUE]

\* the timer callback: flushUpdates runs to its first await, then the field is
\* cleared
TimerFires ==
    /\ flushTimers > 0
    /\ flushTimers' = flushTimers - 1
    /\ flushTimeout' = FALSE

\* the timer fires and flushUpdates runs with nothing else running between its
\* load and its save
flushUpdates ==
    /\ TimerFires
    /\ suspended["flush"] = NoLoad
    /\ flushUpdatesFrom(getFromLocalStorage(currentDriver, store, avail, failing, now))
    /\ UNCHANGED suspended

\* the timer fires and flushUpdates runs up to the end of its load
FlushLoad ==
    /\ TimerFires
    /\ pendingStudentUpdates # <<>> \/ pendingAttendanceUpdates # <<>>
    /\ Suspend("flush")

\* the timer fires while an earlier flushUpdates still waits for its load
SecondFlushLoad ==
    /\ TimerFires
    /\ pendingStudentUpdates # <<>> \/ pendingAttendanceUpdates # <<>>
    /\ suspended["flush"] # NoLoad
    /\ Suspend("flush2")

\* the timer fires with both maps empty: flushUpdates returns at once
FlushSkip ==
    /\ TimerFires
    /\ pendingStudentUpdates = <<>> /\ pendingAttendanceUpdates = <<>>
    /\ lastOp' = [op |-> "flush-skip"]
    /\ UNCHANGED <<syncVarsButLastOp, fnVars, pendingStudentUpdates,
                   pendingAttendanceUpdates, suspended>>

\* flushUpdates from the end of its load on; with both maps empty by now the
\* loops and the clear do nothing and nothing is saved
FlushResumeAt(k) ==
    /\ suspended[k] # NoLoad
    /\ IF pendingStudentUpdates # <<>> \/ pendingAttendanceUpdates # <<>>
       THEN flushUpdatesFrom(Held(k))
       ELSE /\ lastOp' = [op |-> "flush", changed |-> FALSE, loaded |-> suspended[k].data,
                          processed |-> <<>>, saved |-> FALSE, data |-> suspended[k].data]
            /\ UNCHANGED <<syncVarsButLastOp, fnVars, pendingStudentUpdates,
                           pendingAttendanceUpdates>>
    /\ suspended' = [suspended EXCEPT ![k] = NoLoad]
    /\ UNCHANGED <<flushTimeout, flushTimers>>

FlushResume == FlushResumeAt("flush")

SecondFlushResume == FlushResumeAt("flush2")

\* ---------------------------------------------------------------- user operations
Courses == {"", "BSIT"}

ScanTypes == {"check-in"}

SeqMax(S) == CHOOSE x \in S : \A y \in S : y <= x

\* getLastAttendanceTimestamp: the latest matching timestamp, local and (when
\* the query works) remote; the empty set when there is none
LastAttendanceTimestamps(localRecords, ra, sdb, sid, type, remoteOk) ==
    LET identifierIsDb == sdb # NoId
        localTs == {localRecords[i].timestamp : i \in
                      {i \in 1..Len(localRecords) :
                          /\ localRecords[i].type = type
                          /\ IF identifierIsDb THEN localRecords[i].studentDatabaseId = sdb
                             ELSE localRecords[i].studentId = sid}}
        serverTs == {ra[i].timestamp : i \in
                      {i \in 1..Len(ra) :
                          /\ ra[i].type = type
                          /\ IF isUUID(sdb) THEN ra[i].studentDatabaseId = sdb
                             ELSE ~identifierIsDb /\ ra[i].studentId = sid}}
    IN  localTs \cup (IF remoteOk /\ serverTs # {} THEN {SeqMax(serverTs)} ELSE {})

InCooldown(stamps, t) == stamps # {} /\ t - SeqMax(stamps) < COOLDOWN

Partial(students, attendanceRecords) ==
    [students |-> students, attendanceRecords |-> attendanceRecords,
     lastSync |-> NoSync, fullSyncCompleted |-> "undefined"]

\* no call of addAttendanceRecord is suspended
NoCall == [suspended |-> FALSE]

\* attendanceService.addAttendanceRecord, called by the scanner with the
\* student's local id, the current time and the student's course
AddAttendance(sid, type, course) ==
    /\ created < MaxLocal
    /\ LET ld == getFromLocalStorage(currentDriver, store, avail, failing, now)
           k == FirstIndex(ld.data.students, LAMBDA s : s.studentId = sid)
           sdb == IF k = 0 THEN NoId ELSE ld.data.students[k].id
       IN  \E remoteOk \in (IF online THEN BOOLEAN ELSE {FALSE}),
              insOk \in (IF online THEN BOOLEAN ELSE {FALSE}) :
             LET stamps == LastAttendanceTimestamps(ld.data.attendanceRecords,
                               remoteAttendance, sdb, sid, type, remoteOk)
                 newRecord == [id |-> LocalId(created + 1), studentDatabaseId |-> sdb,
                               studentId |-> sid, type |-> type, timestamp |-> now,
                               course |-> course]
                 updatedRecords == Append(ld.data.attendanceRecords, newRecord)
                 sv1 == ManagerSave(ld.cur, store, avail, failing, Partial(<<>>, updatedRecords))
                 row == AttendanceRow(NextUuid(remoteAttendance), newRecord, "add")
                 sv2 == ManagerSave(sv1.cur, sv1.store, avail, failing,
                           Partial(<<>>, ReplaceById(updatedRecords, newRecord.id, FromServer(row))))
             IN  IF InCooldown(stamps, now)
                 THEN /\ lastOp' = [op |-> "add", rejected |-> TRUE, studentId |-> sid,
                                    type |-> type]
                      /\ currentDriver' = ld.cur
                      /\ UNCHANGED <<store, remoteAttendance, created>>
                 ELSE /\ lastOp' = [op |-> "add", rejected |-> FALSE, id |-> newRecord.id,
                                    studentId |-> sid, type |-> type]
                      /\ created' = created + 1
                      /\ remoteAttendance' = IF insOk THEN Append(remoteAttendance, row)
                                             ELSE remoteAttendance
                      /\ store' = IF insOk THEN sv2.store ELSE sv1.store
                      /\ currentDriver' = IF insOk THEN sv2.cur ELSE sv1.cur
    /\ UNCHANGED <<now, online, avail, failing, saveFailing, remoteStudents, isOnline, lastKnownOnlineState,
                   lastSyncTime, startupCheckPending, nextTimer, pendingPush, pendingPull,
                   addInFlight, others, fnVars, rtVars>>

\* addAttendanceRecord called on line, up to its remote insert: the cooldown
\* check, the new record under a placeholder id, the first save
AddAttendanceBegin(sid, type, course) ==
    /\ created < MaxLocal
    /\ addInFlight = NoCall
    /\ online
    /\ LET ld == getFromLocalStorage(currentDriver, store, avail, failing, now)
           k == FirstIndex(ld.data.students, LAMBDA s : s.studentId = sid)
           sdb == IF k = 0 THEN NoId ELSE ld.data.students[k].id
       IN  \E remoteOk \in BOOLEAN :
             LET stamps == LastAttendanceTimestamps(ld.data.attendanceRecords,
                               remoteAttendance, sdb, sid, type, remoteOk)
                 newRecord == [id |-> LocalId(created + 1), studentDatabaseId |-> sdb,
                               studentId |-> sid, type |-> type, timestamp |-> now,
                               course |-> course]
                 updatedRecords == Append(ld.data.attendanceRecords, newRecord)
                 sv1 == ManagerSave(ld.cur, store, avail, failing, Partial(<<>>, updatedRecords))
             IN  IF InCooldown(stamps, now)
                 THEN /\ lastOp' = [op |-> "add", rejected |-> TRUE, studentId |-> sid,
                                    type |-> type]
                      /\ currentDriver' = ld.cur
                      /\ UNCHANGED <<store, created, addInFlight>>
                 ELSE /\ lastOp' = [op |-> "add-begin", id |-> newRecord.id,
                                    studentId |-> sid, type |-> type]
                      /\ created' = created + 1
                      /\ store' = sv1.store
                      /\ currentDriver' = sv1.cur
                      /\ addInFlight' = [suspended |-> TRUE, newRecord |-> newRecord,
                                         updatedRecords |-> updatedRecords]
    /\ UNCHANGED <<now, online, avail, failing, saveFailing, remoteVars, isOnline,
                   lastKnownOnlineState, lastSyncTime, startupCheckPending, nextTimer,
                   pendingPush, pendingPull, others, fnVars, rtVars>>

\* the rest of addAttendanceRecord: the insert returns; on success the
\* placeholder is replaced by the server record in the list built before the
\* insert, and that list is saved
AddAttendanceEnd ==
    /\ addInFlight # NoCall
    /\ \E insOk \in (IF online THEN BOOLEAN ELSE {FALSE}) :
         LET newRecord == addInFlight.newRecord
             row == AttendanceRow(NextUuid(remoteAttendance), newRecord, "add")
             sv2 == ManagerSave(currentDriver, store, avail, failing,
                       Partial(<<>>, ReplaceById(addInFlight.updatedRecords, newRecord.id,
                                                 FromServer(row))))
         IN  /\ lastOp' = [op |-> "add-end", inserted |-> insOk]
             /\ remoteAttendance' = IF insOk THEN Append(remoteAttendance, row)
                                    ELSE remoteAttendance
             /\ store' = IF insOk THEN sv2.store ELSE store
             /\ currentDriver' = IF insOk THEN sv2.cur ELSE currentDriver
    /\ addInFlight' = NoCall
    /\ UNCHANGED <<now, online, avail, failing, saveFailing, remoteStudents, isOnline,
                   lastKnownOnlineState, lastSyncTime, startupCheckPending, nextTimer,
                   pendingPush, pendingPull, created, others, fnVars, rtVars>>

\* registration of a student while off line: it is stored under a placeholder id
RegisterStudentOffline(sid) ==
    /\ ~online
    /\ \A d \in DriverNames : \A i \in 1..Len(store[d].students) :
          store[d].students[i].studentId # sid
    /\ \A i \in 1..Len(remoteStudents) : remoteStudents[i].studentId # sid
    /\ LET ld == getFromLocalStorage(currentDriver, store, avail, failing, now)
           student == [id |-> LocalId(StudentRank(sid)), studentId |-> sid,
                       name |-> "Ann", dirty |-> FALSE]
           sv == ManagerSave(ld.cur, store, avail, failing,
                             Partial(Append(ld.data.students, student), <<>>))
       IN  /\ store' = sv.store
           /\ currentDriver' = sv.cur
           /\ lastOp' = [op |-> "register", saved |-> sv.ok]
    /\ UNCHANGED <<now, online, avail, failing, saveFailing, remoteVars, isOnline, lastKnownOnlineState,
                   lastSyncTime, startupCheckPending, nextTimer, pendingPush, pendingPull,
                   created, addInFlight, others, fnVars, rtVars>>

\* ---------------------------------------------------------------- environment
\* how far another client's event time is from this client's clock: 4 s
Skews == {40}

\* the other client records no course
OtherCourses == {""}

\* another client records the same kind of event in the backend
OtherInsert(sid, type, course, skew) ==
    /\ others < MaxOther
    /\ others' = others + 1
    /\ remoteAttendance' = Append(remoteAttendance,
          [id |-> NextUuid(remoteAttendance), studentDatabaseId |-> NoId,
           studentId |-> sid, type |-> type, timestamp |-> now + skew, course |-> course,
           by |-> "other"])
    /\ lastOp' = Idle
    /\ UNCHANGED <<now, online, storageVars, remoteStudents, isOnline, lastKnownOnlineState,
                   lastSyncTime, startupCheckPending, nextTimer, pendingPush, pendingPull,
                   created, addInFlight, fnVars, rtVars>>

\* the call of scheduleFlush that ends queueStudentChange and queueAttendanceChange
Scheduled ==
    LET s == scheduleFlush(flushTimeout, flushTimers)
    IN  /\ flushTimeout' = s.flushTimeout
        /\ flushTimers' = s.timers
        /\ lastOp' = [op |-> "notify", started |-> s.started]

\* another client records the same kind of event in the backend while this
\* client is subscribed: the INSERT reaches queueAttendanceChange
AttendanceInsertSeen(limit, sid, type, course, skew) ==
    /\ others < limit
    /\ online
    /\ others' = others + 1
    /\ LET row == [id |-> FreshUuid(remoteAttendance, others), studentDatabaseId |-> NoId,
                   studentId |-> sid, type |-> type, timestamp |-> now + skew,
                   course |-> course, by |-> "other"]
       IN  /\ remoteAttendance' = Append(remoteAttendance, row)
           /\ pendingAttendanceUpdates' =
                 QueueChange(pendingAttendanceUpdates,
                             [eventType |-> "INSERT", new |-> row, old |-> NoRow])
    /\ Scheduled
    /\ UNCHANGED <<now, online, storageVars, remoteStudents, isOnline, lastKnownOnlineState,
                   lastSyncTime, startupCheckPending, nextTimer, pendingPush, pendingPull,
                   created, addInFlight, fnVars, pendingStudentUpdates, suspended>>

OtherInsertSeen(sid, type, course, skew) ==
    AttendanceInsertSeen(MaxOther, sid, type, course, skew)

\* the names another client gives a student
OtherNames == {"Cy"}

\* another client edits a student of the backend while this client is
\* subscribed: the UPDATE reaches queueStudentChange
StudentUpdateSeen(limit, k, name) ==
    /\ others < limit
    /\ online
    /\ k \in 1..Len(remoteStudents)
    /\ others' = others + 1
    /\ LET row == [remoteStudents[k] EXCEPT !.name = name]
       IN  /\ remoteStudents' = [remoteStudents EXCEPT ![k] = row]
           /\ pendingStudentUpdates' =
                 QueueChange(pendingStudentUpdates,
                             [eventType |-> "UPDATE", new |-> row, old |-> NoRow])
    /\ Scheduled
    /\ UNCHANGED <<now, online, storageVars, remoteAttendance, isOnline,
                   lastKnownOnlineState, lastSyncTime, startupCheckPending, nextTimer,
                   pendingPush, pendingPull, created, addInFlight, fnVars,
                   pendingAttendanceUpdates, suspended>>

OtherUpdateSeen(k, name) == StudentUpdateSeen(MaxOther, k, name)

\* another client registers a student: the INSERT reaches queueStudentChange
StudentInsertSeen(limit, sid, name) ==
    /\ others < limit
    /\ online
    /\ \A i \in 1..Len(remoteStudents) : remoteStudents[i].studentId # sid
    /\ others' = others + 1
    /\ LET row == [id |-> FreshUuid(remoteStudents, others), studentId |-> sid, name |-> name]
       IN  /\ remoteStudents' = Append(remoteStudents, row)
           /\ pendingStudentUpdates' =
                 QueueChange(pendingStudentUpdates,
                             [eventType |-> "INSERT", new |-> row, old |-> NoRow])
    /\ Scheduled
    /\ UNCHANGED <<now, online, storageVars, remoteAttendance, isOnline,
                   lastKnownOnlineState, lastSyncTime, startupCheckPending, nextTimer,
                   pendingPush, pendingPull, created, addInFlight, fnVars,
                   pendingAttendanceUpdates, suspended>>

\* another client removes a student: the DELETE reaches queueStudentChange with
\* the old row
StudentDeleteSeen(limit, k) ==
    /\ others < limit
    /\ online
    /\ k \in 1..Len(remoteStudents)
    /\ others' = others + 1
    /\ remoteStudents' = RemoveAt(remoteStudents, k)
    /\ pendingStudentUpdates' =
          QueueChange(pendingStudentUpdates,
                      [eventType |-> "DELETE", new |-> NoRow, old |-> remoteStudents[k]])
    /\ Scheduled
    /\ UNCHANGED <<now, online, storageVars, remoteAttendance, isOnline,
                   lastKnownOnlineState, lastSyncTime, startupCheckPending, nextTimer,
                   pendingPush, pendingPull, created, addInFlight, fnVars,
                   pendingAttendanceUpdates, suspended>>

\* another client removes an attendance row: the DELETE reaches
\* queueAttendanceChange with the old row
AttendanceDeleteSeen(limit, k) ==
    /\ others < limit
    /\ online
    /\ k \in 1..Len(remoteAttendance)
    /\ others' = others + 1
    /\ remoteAttendance' = RemoveAt(remoteAttendance, k)
    /\ pendingAttendanceUpdates' =
          QueueChange(pendingAttendanceUpdates,
                      [eventType |-> "DELETE", new |-> NoRow, old |-> remoteAttendance[k]])
    /\ Scheduled
    /\ UNCHANGED <<now, online, storageVars, remoteStudents, isOnline, lastKnownOnlineState,
                   lastSyncTime, startupCheckPending, nextTimer, pendingPush, pendingPull,
                   created, addInFlight, fnVars, pendingStudentUpdates, suspended>>

\* the active driver, still reporting available, starts failing for good; what
\* it held is out of reach from then on
DriverFault(d) ==
    /\ Cardinality(failing) < MaxFaults
    /\ d = currentDriver
    /\ d \in avail \ failing
    /\ failing' = failing \cup {d}
    /\ store' = [store EXCEPT ![d] = EmptyData]
    /\ lastOp' = Idle
    /\ UNCHANGED <<now, online, avail, saveFailing, currentDriver, remoteVars, isOnline,
                   lastKnownOnlineState, lastSyncTime, startupCheckPending, nextTimer,
                   pendingPush, pendingPull, created, addInFlight, others, fnVars, rtVars>>

\* the store of the active driver fills up: its save throws from then on,
\* its load still works
SaveFault(d) ==
    /\ Cardinality(saveFailing) < MaxFaults
    /\ d = currentDriver
    /\ d \in avail \ saveFailing
    /\ saveFailing' = saveFailing \cup {d}
    /\ lastOp' = Idle
    /\ UNCHANGED <<now, online, avail, failing, currentDriver, store, remoteVars, isOnline,
                   lastKnownOnlineState, lastSyncTime, startupCheckPending, nextTimer,
                   pendingPush, pendingPull, created, addInFlight, others, fnVars, rtVars>>

\* the clock is observed every 30 s
Steps == {300}

\* time passes; a due timer fires and a started cycle finishes before the
\* clock is observed again
Tick(d) ==
    /\ now + d <= MaxNow
    /\ now < nextTimer
    /\ ~(startupCheckPending /\ now >= StartNow + STARTUP_DELAY)
    /\ Inflight = 0
    /\ addInFlight = NoCall
    /\ pendingStudentUpdates = <<>> /\ pendingAttendanceUpdates = <<>>
    /\ \A k \in Operations : suspended[k] = NoLoad
    /\ now' = now + d
    /\ lastOp' = Idle
    /\ UNCHANGED <<online, storageVars, remoteVars, isOnline, lastKnownOnlineState,
                   lastSyncTime, startupCheckPending, nextTimer, pendingPush, pendingPull,
                   created, addInFlight, others, fnVars, rtVars>>

\* ---------------------------------------------------------------- specification
Hosts == {DriverNames, {"indexeddb", "localstorage"}, {"localstorage"}}

\* the state after new AutoSyncService(): the constructor has called
\* performSync() when the host is on line
SyncInit ==
    /\ now = StartNow
    /\ online \in BOOLEAN
    /\ avail \in Hosts
    /\ failing = {}
    /\ saveFailing = {}
    /\ currentDriver = Unknown
    /\ store = EmptyStore
    /\ remoteStudents = <<>>
    /\ remoteAttendance = <<>>
    /\ isOnline = online
    /\ lastKnownOnlineState = online
    /\ lastSyncTime = IF online THEN performSync(FALSE, StartNow, 0).lastSyncTime ELSE 0
    /\ startupCheckPending = TRUE
    /\ nextTimer = StartNow + REGULAR_SYNC_INTERVAL
    /\ pendingPush = IF online THEN performSync(FALSE, StartNow, 0).started ELSE 0
    /\ pendingPull = 0
    /\ created = 0
    /\ addInFlight = NoCall
    /\ others = 0
    /\ lastOp = Idle
    /\ RealtimeInit

Init ==
    /\ SyncInit
    /\ fnIn = <<>>
    /\ fnOut = <<>>
    /\ fnStage = "idle"

\* the service and its environment
SyncNext ==
    \/ TimerTick
    \/ \E event \in BOOLEAN : GoOnline(event)
    \/ GoOffline
    \/ StartupCheck
    \/ ForceSync
    \/ PushPass
    \/ PullPass
    \/ \E d \in Steps : Tick(d)

\* one client scanning, healthy drivers
Next ==
    \/ SyncNext
    \/ \E sid \in StudentIds, type \in ScanTypes, course \in Courses :
          AddAttendance(sid, type, course)

Spec == Init /\ [][Next]_vars

\* one client registering students off line
StudentNext ==
    \/ SyncNext
    \/ \E sid \in StudentIds : RegisterStudentOffline(sid)

StudentSpec == Init /\ [][StudentNext]_vars

\* a client that stays on line while other clients write to the backend as well
SharedInit == Init /\ online

SharedNext ==
    \/ TimerTick
    \/ StartupCheck
    \/ ForceSync
    \/ PushPass
    \/ PullPass
    \/ \E d \in Steps : Tick(d)
    \/ \E sid \in StudentIds, type \in ScanTypes, course \in Courses :
          AddAttendance(sid, type, course)
    \/ \E sid \in StudentIds, type \in ScanTypes, course \in OtherCourses, skew \in Skews :
          OtherInsert(sid, type, course, skew)

SharedSpec == SharedInit /\ [][SharedNext]_vars

\* the active driver may start failing
FaultNext ==
    \/ Next
    \/ \E d \in DriverNames : DriverFault(d)

FaultSpec == Init /\ [][FaultNext]_vars

\* the entries of an earlier session that ended off line: a check-in and a
\* check-out, both older than the 15 s grace
EarlierEntries ==
    <<[id |-> LocalId(1), studentDatabaseId |-> NoId, studentId |-> "S1",
       type |-> "check-in", timestamp |-> StartNow - 20 * TicksPerSecond, course |-> "BSIT"],
      [id |-> LocalId(2), studentDatabaseId |-> NoId, studentId |-> "S1",
       type |-> "check-out", timestamp |-> StartNow - 16 * TicksPerSecond, course |-> "BSIT"]>>

\* the service starts over a store that holds the entries of the earlier session
RetryInit ==
    /\ now = StartNow
    /\ online \in BOOLEAN
    /\ avail \in Hosts
    /\ failing = {}
    /\ saveFailing = {}
    /\ currentDriver = Unknown
    /\ store = ManagerSave(Unknown, EmptyStore, avail, {}, Partial(<<>>, EarlierEntries)).store
    /\ remoteStudents = <<>>
    /\ remoteAttendance = <<>>
    /\ isOnline = online
    /\ lastKnownOnlineState = online
    /\ lastSyncTime = IF online THEN performSync(FALSE, StartNow, 0).lastSyncTime ELSE 0
    /\ startupCheckPending = TRUE
    /\ nextTimer = StartNow + REGULAR_SYNC_INTERVAL
    /\ pendingPush = IF online THEN performSync(FALSE, StartNow, 0).started ELSE 0
    /\ pendingPull = 0
    /\ created = Len(EarlierEntries)
    /\ addInFlight = NoCall
    /\ others = 0
    /\ lastOp = Idle
    /\ RealtimeInit
    /\ fnIn = <<>>
    /\ fnOut = <<>>
    /\ fnStage = "idle"

RetrySpec == RetryInit /\ [][SyncNext]_vars

\* the state after new AutoSyncService() over a store that holds data, with
\* the backend holding the students rs and the attendance rows ra, and n
\* more scans to come
StartWith(data, rs, ra, n) ==
    /\ now = StartNow
    /\ online \in BOOLEAN
    /\ avail \in Hosts
    /\ failing = {}
    /\ saveFailing = {}
    /\ currentDriver = Unknown
    /\ store = ManagerSave(Unknown, EmptyStore, avail, {}, data).store
    /\ remoteStudents = rs
    /\ remoteAttendance = ra
    /\ isOnline = online
    /\ lastKnownOnlineState = online
    /\ lastSyncTime = IF online THEN performSync(FALSE, StartNow, 0).lastSyncTime ELSE 0
    /\ startupCheckPending = TRUE
    /\ nextTimer = StartNow + REGULAR_SYNC_INTERVAL
    /\ pendingPush = IF online THEN performSync(FALSE, StartNow, 0).started ELSE 0
    /\ pendingPull = 0
    /\ created = MaxLocal - n
    /\ addInFlight = NoCall
    /\ others = 0
    /\ lastOp = Idle
    /\ RealtimeInit
    /\ fnIn = <<>>
    /\ fnOut = <<>>
    /\ fnStage = "idle"

\* the state after new AutoSyncService() over a store that holds data
StartOver(data) == StartWith(data, <<>>, <<>>, 0)

\* entries around the limits of the push filter: one older than the grace
\* period, one younger, one already under a backend id and one of 8 days ago
WindowEntries ==
    <<[id |-> LocalId(1), studentDatabaseId |-> NoId, studentId |-> "S1",
       type |-> "check-in", timestamp |-> StartNow - 20 * TicksPerSecond, course |-> "BSIT"],
      [id |-> LocalId(2), studentDatabaseId |-> NoId, studentId |-> "S1",
       type |-> "check-out", timestamp |-> StartNow - 10 * TicksPerSecond, course |-> "BSIT"],
      [id |-> UuidId(9), studentDatabaseId |-> NoId, studentId |-> "S1",
       type |-> "check-in", timestamp |-> StartNow - 3600 * TicksPerSecond, course |-> "BSIT"],
      [id |-> LocalId(3), studentDatabaseId |-> NoId, studentId |-> "S1",
       type |-> "check-out", timestamp |-> StartNow - 8 * 24 * 3600 * TicksPerSecond,
       course |-> "BSIT"]>>

WindowInit == StartOver(Partial(<<>>, WindowEntries)) /\ online

\* the service on a host that stays on line: the timers and the cycles
WindowNext ==
    \/ TimerTick
    \/ StartupCheck
    \/ PushPass
    \/ PullPass
    \/ \E d \in Steps : Tick(d)

WindowSpec == WindowInit /\ [][WindowNext]_vars

\* what an earlier session left behind: a student of the backend edited off
\* line (dirty), a student registered off line, and an entry scanned off line
BacklogStudents ==
    <<[id |-> UuidId(1), studentId |-> "S1", name |-> "Bea", dirty |-> TRUE],
      [id |-> LocalId(2), studentId |-> "S2", name |-> "Cy", dirty |-> FALSE]>>

BacklogEntry(course) ==
    [id |-> LocalId(1), studentDatabaseId |-> UuidId(1), studentId |-> "S1",
     type |-> "check-in", timestamp |-> StartNow - 20 * TicksPerSecond, course |-> course]

\* the backend's row of the edited student, before the edit
BacklogRemoteStudents == <<[id |-> UuidId(1), studentId |-> "S1", name |-> "Ann"]>>

\* another client's row of the same scan, 4 s later, without a course and
\* without the permanent student id
BacklogRemoteAttendance ==
    <<[id |-> UuidId(1), studentDatabaseId |-> NoId, studentId |-> "S1",
       type |-> "check-in", timestamp |-> StartNow - 16 * TicksPerSecond, course |-> "",
       by |-> "other"]>>

BacklogInit ==
    /\ \E course \in Courses, rs \in {<<>>, BacklogRemoteStudents},
          ra \in {<<>>, BacklogRemoteAttendance} :
         StartWith([students |-> BacklogStudents,
                    attendanceRecords |-> <<BacklogEntry(course)>>,
                    lastSync |-> StartNow - 3600 * TicksPerSecond,
                    fullSyncCompleted |-> "true"], rs, ra, 0)
    /\ online

BacklogSpec == BacklogInit /\ [][WindowNext]_vars

\* the service on line beside the realtime ingestor, other clients editing
\* the students of the backend
EditNext ==
    \/ WindowNext
    \/ \E k \in 1..Len(BacklogRemoteStudents), name \in OtherNames : OtherUpdateSeen(k, name)
    \/ flushUpdates

EditSpec == BacklogInit /\ [][EditNext]_vars

\* a scan, a sync cycle and a realtime flush in flight together, each
\* suspended between its load and its save
InterleaveNext ==
    \/ TimerTick
    \/ StartupCheck
    \/ PushLoad
    \/ PushResume
    \/ PullLoad
    \/ PullResume
    \/ FlushLoad
    \/ FlushResume
    \/ \E d \in Steps : Tick(d)
    \/ \E sid \in StudentIds, type \in ScanTypes, course \in Courses :
          AddAttendanceBegin(sid, type, course)
    \/ AddAttendanceEnd
    \/ \E sid \in StudentIds, type \in ScanTypes, course \in OtherCourses, skew \in Skews :
          OtherInsertSeen(sid, type, course, skew)

InterleaveSpec == SharedInit /\ [][InterleaveNext]_vars

\* a client in step with the backend: one student and one entry, both held
\* locally under their backend ids
BatchStudents == <<[id |-> UuidId(1), studentId |-> "S1", name |-> "Ann", dirty |-> FALSE]>>

BatchEntries ==
    <<[id |-> UuidId(1), studentDatabaseId |-> UuidId(1), studentId |-> "S1",
       type |-> "check-in", timestamp |-> StartNow - 60 * TicksPerSecond, course |-> ""]>>

BatchRemoteStudents == <<[id |-> UuidId(1), studentId |-> "S1", name |-> "Ann"]>>

BatchRemoteAttendance ==
    <<[id |-> UuidId(1), studentDatabaseId |-> UuidId(1), studentId |-> "S1",
       type |-> "check-in", timestamp |-> StartNow - 60 * TicksPerSecond, course |-> "",
       by |-> "other"]>>

BatchInit ==
    /\ StartWith([students |-> BatchStudents, attendanceRecords |-> BatchEntries,
                  lastSync |-> StartNow - 60 * TicksPerSecond, fullSyncCompleted |-> "true"],
                 BatchRemoteStudents, BatchRemoteAttendance, 0)
    /\ online

\* the students another client registers
NewStudents == {"S2"}

\* the realtime ingestor under the changes of other clients: notifications
\* arrive at any moment, also while a flush waits for its load
BatchNext ==
    \/ \E sid \in StudentIds, type \in ScanTypes, course \in OtherCourses, skew \in Skews :
          AttendanceInsertSeen(MaxNotified, sid, type, course, skew)
    \/ \E k \in 1..MaxNotified : AttendanceDeleteSeen(MaxNotified, k)
    \/ \E sid \in NewStudents, name \in OtherNames : StudentInsertSeen(MaxNotified, sid, name)
    \/ \E k \in 1..MaxNotified, name \in OtherNames : StudentUpdateSeen(MaxNotified, k, name)
    \/ \E k \in 1..MaxNotified : StudentDeleteSeen(MaxNotified, k)
    \/ FlushLoad
    \/ SecondFlushLoad
    \/ FlushSkip
    \/ FlushResume
    \/ SecondFlushResume

BatchSpec == BatchInit /\ [][BatchNext]_vars

\* the triggers of performSync with a second cycle free to start while the
\* first one is running
OverlapNext ==
    \/ TimerTickUpTo(MaxOverlap)
    \/ \E event \in BOOLEAN : GoOnlineUpTo(MaxOverlap, event)
    \/ GoOffline
    \/ StartupCheckUpTo(MaxOverlap)
    \/ ForceSyncUpTo(MaxOverlap)
    \/ PushPass
    \/ PullPass
    \/ \E d \in Steps : Tick(d)

OverlapSpec == Init /\ [][OverlapNext]_vars

\* a push pass and a pull pass all of whose remote calls succeed
PushPassOk ==
    /\ PushPass
    /\ lastOp'.lookupsOk
    /\ lastOp'.failed = {}

PullPassOk ==
    /\ PullPass
    /\ lastOp'.requestsOk

\* the service on a host that stays on line with a backend that answers; the
\* interval timer, the startup timeout and the awaited passes all run when
\* they are due
LiveNext ==
    \/ TimerTick
    \/ StartupCheck
    \/ PushPassOk
    \/ PullPassOk
    \/ \E d \in Steps : Tick(d)

\* the service starts on line over any selection of the entries around the
\* limits of the push filter
LiveInit ==
    /\ \E S \in SUBSET (1..Len(WindowEntries)) :
          LET idx == SelectSeq([i \in 1..Len(WindowEntries) |-> i], LAMBDA i : i \in S)
          IN  StartOver(Partial(<<>>, [k \in 1..Len(idx) |-> WindowEntries[idx[k]]]))
    /\ online

\* setInterval, setTimeout and the clock are fair; so are the awaited passes:
\* a pass that is due runs (weak fairness of PushPassOk and PullPassOk, with
\* the guard of the pass written out for ENABLED)
LiveSpec ==
    /\ LiveInit
    /\ [][LiveNext]_vars
    /\ WF_vars(TimerTick)
    /\ WF_vars(StartupCheck)
    /\ WF_vars(\E d \in Steps : Tick(d))
    /\ ([]<>(pendingPush = 0) \/ []<><<PushPassOk>>_vars)
    /\ ([]<>(pendingPull = 0) \/ []<><<PullPassOk>>_vars)

\* what an off-line session in the browser left behind a minute ago: a student
\* registered under a placeholder id and the student's check-in, which
\* carries that id
CooldownStudent == [id |-> LocalId(1), studentId |-> "S1", name |-> "Ann", dirty |-> FALSE]

CooldownEntry ==
    [id |-> LocalId(9), studentDatabaseId |-> CooldownStudent.id, studentId |-> "S1",
     type |-> "check-in", timestamp |-> StartNow - 60 * TicksPerSecond, course |-> "BSIT"]

CooldownInit ==
    /\ StartWith(Partial(<<CooldownStudent>>, <<CooldownEntry>>), <<>>, <<>>, 1)
    /\ online
    /\ ~isElectron

\* the service on line and the scanner
CooldownNext ==
    \/ WindowNext
    \/ \E sid \in StudentIds, type \in ScanTypes, course \in Courses :
          AddAttendance(sid, type, course)

CooldownSpec == CooldownInit /\ [][CooldownNext]_vars

\* ---------------------------------------------------------------- Storage Manager alone
\* the hosts of the Storage Manager: those of the service, a host without a
\* window (no driver reports available) and one without localStorage
ManagerHosts == Hosts \cup {{}, {"indexeddb"}}

\* what the callers save: a student and an entry under placeholder ids, a sync
\* time and the bootstrap flag
SaveInputs ==
    {[students |-> <<[id |-> LocalId(1), studentId |-> "S1", name |-> "Ann",
                      dirty |-> FALSE]>>,
      attendanceRecords |-> <<EarlierEntries[1]>>,
      lastSync |-> StartNow, fullSyncCompleted |-> "true"]}

\* records that share a composite key under two ids, and one of another instant
KeyRecords ==
    <<[id |-> LocalId(1), studentDatabaseId |-> NoId, studentId |-> "S1",
       type |-> "check-in", timestamp |-> StartNow - 20 * TicksPerSecond, course |-> "BSIT"],
      [id |-> UuidId(1), studentDatabaseId |-> UuidId(1), studentId |-> "S1",
       type |-> "check-in", timestamp |-> StartNow - 20 * TicksPerSecond, course |-> ""],
      [id |-> LocalId(2), studentDatabaseId |-> NoId, studentId |-> "S1",
       type |-> "check-in", timestamp |-> StartNow - 10 * TicksPerSecond, course |-> "BSIT"]>>

\* students that share a business key under two ids, and another student
KeyStudents ==
    <<[id |-> LocalId(1), studentId |-> "S1", name |-> "Ann", dirty |-> FALSE],
      [id |-> UuidId(1), studentId |-> "S1", name |-> "Bea", dirty |-> FALSE],
      [id |-> UuidId(2), studentId |-> "S2", name |-> "Cy", dirty |-> FALSE]>>

\* the lists a save is called with: one record, the same record twice, the two
\* records of one key, and lists that repeat what is stored
KeyLists == {<<1>>, <<1, 1>>, <<2>>, <<1, 2>>, <<3, 1>>}

KeyInputs ==
    {[students |-> [i \in 1..Len(l) |-> KeyStudents[l[i]]],
      attendanceRecords |-> [i \in 1..Len(l) |-> KeyRecords[l[i]]],
      lastSync |-> StartNow, fullSyncCompleted |-> "true"] : l \in KeyLists}

\* the names migrate is called with: the three drivers and one that is none
MigrateTargets == DriverNames \cup {"memory"}

ManagerSpecInit ==
    /\ now = StartNow
    /\ online = FALSE
    /\ avail \in ManagerHosts
    /\ failing = {}
    /\ saveFailing = {}
    /\ currentDriver = Unknown
    /\ store = EmptyStore
    /\ remoteStudents = <<>>
    /\ remoteAttendance = <<>>
    /\ isOnline = FALSE
    /\ lastKnownOnlineState = FALSE
    /\ lastSyncTime = 0
    /\ startupCheckPending = TRUE
    /\ nextTimer = StartNow + REGULAR_SYNC_INTERVAL
    /\ pendingPush = 0
    /\ pendingPull = 0
    /\ created = 0
    /\ addInFlight = NoCall
    /\ others = 0
    /\ lastOp = Idle
    /\ RealtimeInit
    /\ fnIn = <<>>
    /\ fnOut = <<>>
    /\ fnStage = "idle"

\* what the Storage Manager's operations leave alone
managerRest ==
    <<now, online, avail, failing, saveFailing, remoteVars, isOnline, lastKnownOnlineState,
      lastSyncTime, startupCheckPending, nextTimer, pendingPush, pendingPull, created, addInFlight,
      others, fnVars, rtVars>>

\* storageManager.init()
MgrInit ==
    /\ currentDriver' = ManagerInit(currentDriver, avail, failing)
    /\ lastOp' = [op |-> "minit", ok |-> currentDriver' # Unknown]
    /\ UNCHANGED <<store, managerRest>>

\* storageManager.load()
MgrLoad ==
    /\ LET r == ManagerLoad(currentDriver, store, avail, failing, now)
       IN  /\ currentDriver' = r.cur
           /\ lastOp' = [op |-> "mload", ok |-> r.ok]
    /\ UNCHANGED <<store, managerRest>>

\* storageManager.save(data)
MgrSave(data) ==
    /\ LET r == ManagerSave(currentDriver, store, avail, failing, data)
       IN  /\ currentDriver' = r.cur
           /\ store' = r.store
           /\ lastOp' = [op |-> "msave", ok |-> r.ok, data |-> data]
    /\ UNCHANGED managerRest

\* storageManager.clear()
MgrClear ==
    /\ LET r == ManagerClear(currentDriver, store, avail, failing)
       IN  /\ currentDriver' = r.cur
           /\ store' = r.store
           /\ lastOp' = [op |-> "mclear", ok |-> r.ok]
    /\ UNCHANGED managerRest

\* storageManager.migrate(toDriverName)
MgrMigrate(toDriverName) ==
    /\ LET r == ManagerMigrate(currentDriver, store, avail, failing, toDriverName, now)
       IN  /\ currentDriver' = r.cur
           /\ store' = r.store
           /\ lastOp' = [op |-> "migrate", ok |-> r.ok, target |-> toDriverName]
    /\ UNCHANGED managerRest

\* an available driver starts failing: its operations throw or, where the
\* driver catches, return nothing
DriverBreaks(d) ==
    /\ d \in avail \ failing
    /\ failing' = failing \cup {d}
    /\ lastOp' = Idle
    /\ UNCHANGED <<now, online, avail, saveFailing, currentDriver, store, remoteVars, isOnline,
                   lastKnownOnlineState, lastSyncTime, startupCheckPending, nextTimer,
                   pendingPush, pendingPull, created, addInFlight, others, fnVars, rtVars>>

\* a failing driver works again
DriverRecovers(d) ==
    /\ d \in failing
    /\ failing' = failing \ {d}
    /\ lastOp' = Idle
    /\ UNCHANGED <<now, online, avail, saveFailing, currentDriver, store, remoteVars, isOnline,
                   lastKnownOnlineState, lastSyncTime, startupCheckPending, nextTimer,
                   pendingPush, pendingPull, created, addInFlight, others, fnVars, rtVars>>

\* load, save and clear, no migrate
ManagerNext ==
    \/ MgrInit
    \/ MgrLoad
    \/ \E data \in SaveInputs : MgrSave(data)
    \/ MgrClear
    \/ \E d \in DriverNames : DriverBreaks(d)
    \/ \E d \in DriverNames : DriverRecovers(d)

ManagerSpec == ManagerSpecInit /\ [][ManagerNext]_vars

\* the Storage Manager under saves that repeat keys
StoreNext ==
    \/ MgrInit
    \/ MgrLoad
    \/ \E data \in KeyInputs : MgrSave(data)
    \/ MgrClear
    \/ \E d \in DriverNames : DriverBreaks(d)
    \/ \E d \in DriverNames : DriverRecovers(d)

StoreSpec == ManagerSpecInit /\ [][StoreNext]_vars

\* the Storage Manager from construction to the first clear
KeepNext ==
    \/ MgrInit
    \/ MgrLoad
    \/ \E data \in KeyInputs : MgrSave(data)
    \/ \E d \in DriverNames : DriverBreaks(d)
    \/ \E d \in DriverNames : DriverRecovers(d)

KeepSpec == ManagerSpecInit /\ [][KeepNext]_vars

\* the same with the administrative migration
MigrateNext ==
    \/ ManagerNext
    \/ \E toDriverName \in MigrateTargets : MgrMigrate(toDriverName)

MigrateSpec == ManagerSpecInit /\ [][MigrateNext]_vars

\* a client that stays on line, whose scans are suspended at their remote
\* insert while the sync cycles run
RaceNext ==
    \/ TimerTick
    \/ StartupCheck
    \/ ForceSync
    \/ PushPass
    \/ PullPass
    \/ \E d \in Steps : Tick(d)
    \/ \E sid \in StudentIds, type \in ScanTypes, course \in Courses :
          AddAttendanceBegin(sid, type, course)
    \/ AddAttendanceEnd

RaceSpec == SharedInit /\ [][RaceNext]_vars

\* the store of a driver may fill up
QuotaNext ==
    \/ Next
    \/ \E d \in DriverNames : SaveFault(d)

QuotaSpec == Init /\ [][QuotaNext]_vars

\* ---------------------------------------------------------------- pure functions
\* the entries the deduplication is exercised on: two students, two instants
\* of one second and one of another, placeholder and backend ids
DedupEntries ==
    {[id |-> id, studentDatabaseId |-> NoId, studentId |-> sid, type |-> "check-in",
      timestamp |-> ts, course |-> ""] :
        id \in {LocalId(1), UuidId(1)}, sid \in {"S1", "S2"}, ts \in {1000, 1005, 1040}}

\* the events the merge is exercised on: one student and direction, instants
\* inside and outside the window, with and without a course
MergeEntries ==
    {[id |-> id, studentDatabaseId |-> NoId, studentId |-> "S1", type |-> "check-in",
      timestamp |-> ts, course |-> course] :
        id \in {LocalId(1), UuidId(1), NumId(1)}, ts \in {1000, 1040, 1150},
        course \in Courses}

\* the events a chain is built from: one student and direction, three instants
\* eight seconds apart, so that the outer two are outside the window
ChainEntries ==
    {[id |-> id, studentDatabaseId |-> NoId, studentId |-> "S1", type |-> "check-in",
      timestamp |-> ts, course |-> ""] :
        id \in {LocalId(1), UuidId(1)}, ts \in {1000, 1080, 1160}}

ListsUpTo(S, n) == UNION {[1..k -> S] : k \in 0..n}

FnInputs ==
    ListsUpTo(DedupEntries, MaxLen) \cup [1..2 -> MergeEntries] \cup [1..3 -> ChainEntries]

FnInit ==
    /\ SyncInit
    /\ ~online
    /\ avail = DriverNames
    /\ fnIn \in FnInputs
    /\ fnOut = <<>>
    /\ fnStage = "input"

ApplyDedup ==
    /\ fnStage = "input"
    /\ fnOut' = deduplicateAttendance(fnIn)
    /\ fnStage' = "dedup"
    /\ UNCHANGED <<fnIn, syncVars, rtVars>>

ApplyDedupAgain ==
    /\ fnStage = "dedup"
    /\ fnOut' = deduplicateAttendance(fnOut)
    /\ fnStage' = "dedup2"
    /\ UNCHANGED <<fnIn, syncVars, rtVars>>

MergePull ==
    /\ fnStage = "input"
    /\ fnOut' = Deduped(fnIn)
    /\ fnStage' = "pull"
    /\ UNCHANGED <<fnIn, syncVars, rtVars>>

MergeRealtime ==
    /\ fnStage = "input"
    /\ fnOut' = dedupeList(fnIn)
    /\ fnStage' = "realtime"
    /\ UNCHANGED <<fnIn, syncVars, rtVars>>

MergeService ==
    /\ fnStage = "input"
    /\ fnOut' = ServiceDedupe(fnIn)
    /\ fnStage' = "service"
    /\ UNCHANGED <<fnIn, syncVars, rtVars>>

FnNext == ApplyDedup \/ ApplyDedupAgain \/ MergePull \/ MergeRealtime \/ MergeService

FnSpec == FnInit /\ [][FnNext]_vars

\* ---------------------------------------------------------------- properties
\* what a load through the Storage Manager returns in this state
Loaded == getFromLocalStorage(currentDriver, store, avail, failing, now).data

\* the number of entries of records with the composite key of r
CountKey(records, r) ==
    Cardinality({i \in 1..Len(records) : CompositeKey(records[i]) = CompositeKey(r)})

\* C1: an entry created off line and pushed is inserted once and stored once.
\* A push pass whose lookups succeed inserts no row for an event (student,
\* direction, time) the backend already holds; and after a pull pass that
\* fetched and saved, every row this client pushed that lies in the load
\* window is held exactly once in the envelope a load returns.
C1_PushedOnceStoredOnce ==
    [][/\ (lastOp'.op = "push" /\ lastOp'.lookupsOk) =>
             \A k \in (Len(remoteAttendance) + 1)..Len(remoteAttendance') :
               \A i \in 1..Len(remoteAttendance) :
                 CompositeKey(remoteAttendance[i]) # CompositeKey(remoteAttendance'[k])
       /\ (lastOp'.op = "pull" /\ lastOp'.fetched /\ lastOp'.saved) =>
             \A i \in 1..Len(remoteAttendance') :
               (remoteAttendance'[i].by = "push" /\ InPullWindow(remoteAttendance'[i], now'))
                 => CountKey(Loaded'.attendanceRecords, remoteAttendance'[i]) = 1
      ]_vars

\* C1: a pull pass of a later cycle fetched the pushed row while the embedded
\* driver still holds the entry under its placeholder id
C1_Witness ==
    /\ lastOp.op = "pull" /\ lastOp.fetched /\ lastOp.saved /\ lastOp.flag = "true"
    /\ currentDriver = "indexeddb"
    /\ Len(remoteAttendance) = 1
    /\ remoteAttendance[1].by = "push"
    /\ remoteAttendance[1].timestamp = StartNow
    /\ now > StartNow + MIN_SYNC_INTERVAL
    /\ CountKey(Loaded.attendanceRecords, remoteAttendance[1]) = 1

\* C2: after a pull pass that fetched and saved, the envelope a load returns
\* holds no two entries of one student and direction 4 seconds apart (the local
\* entry at T and the remote one at T+4s are one logical event).
C2_PullKeepsOneEntry ==
    (lastOp.op = "pull" /\ lastOp.fetched /\ lastOp.saved) =>
        \A i, j \in 1..Len(Loaded.attendanceRecords) :
            LET a == Loaded.attendanceRecords[i]
                b == Loaded.attendanceRecords[j]
            IN  ~(/\ a.studentId = b.studentId
                  /\ a.type = b.type
                  /\ b.timestamp - a.timestamp = 4 * TicksPerSecond)

\* C3: after a push pass that created a placeholder student remotely and
\* saved, the envelope a load returns holds that student exactly once, under
\* the backend id, and no student under the old placeholder id.
C3_StudentIdRewritten ==
    (lastOp.op = "push" /\ lastOp.saved) =>
        \A p \in lastOp.students :
            /\ Cardinality({i \in 1..Len(Loaded.students) :
                              Loaded.students[i].studentId = p.studentId}) = 1
            /\ \A i \in 1..Len(Loaded.students) :
                  /\ Loaded.students[i].studentId = p.studentId => Loaded.students[i].id = p.new
                  /\ Loaded.students[i].id # p.old

\* C3: a push pass created a placeholder student remotely under the embedded driver
C3_Witness ==
    /\ lastOp.op = "push" /\ lastOp.saved
    /\ lastOp.students # {}
    /\ currentDriver = "indexeddb"
    /\ \E i \in 1..Len(Loaded.students) : isUUID(Loaded.students[i].id)

\* C4: after a push pass that saved, every entry it inserted remotely or
\* matched to a remote row is stored under the remote id, and no entry is
\* stored under the old id any more.
C4_AttendanceIdRewritten ==
    (lastOp.op = "push" /\ lastOp.saved) =>
        \A p \in lastOp.records :
            /\ \E i \in 1..Len(Loaded.attendanceRecords) : Loaded.attendanceRecords[i].id = p.new
            /\ \A i \in 1..Len(Loaded.attendanceRecords) : Loaded.attendanceRecords[i].id # p.old

\* C5: the fuzzy merge of two events of one student and direction at most
\* 10 seconds apart yields exactly one event, and it is the one with a course
\* when only one has a course, whatever the timestamps and the ids; for the
\* merge of the pull pass, of the realtime ingestor and of the attendance service.
C5_FuzzyMergePair ==
    (/\ fnStage \in {"pull", "realtime", "service"}
     /\ Len(fnIn) = 2
     /\ fnIn[1].studentId = fnIn[2].studentId
     /\ fnIn[1].type = fnIn[2].type
     /\ Abs(fnIn[1].timestamp - fnIn[2].timestamp) <= 10 * TicksPerSecond)
    => /\ Len(fnOut) = 1
       /\ (fnIn[1].course # "" /\ fnIn[2].course = "") => fnOut[1] = fnIn[1]
       /\ (fnIn[2].course # "" /\ fnIn[1].course = "") => fnOut[1] = fnIn[2]

\* C5: the pull pass merged a backend event without a course with an earlier
\* placeholder event that has one, and kept the latter
C5_Witness ==
    /\ fnStage = "pull"
    /\ Len(fnIn) = 2
    /\ isUUID(fnIn[1].id) /\ fnIn[1].course = ""
    /\ startsWithLocal(fnIn[2].id) /\ fnIn[2].course # ""
    /\ fnIn[2].timestamp < fnIn[1].timestamp
    /\ fnIn[1].timestamp - fnIn[2].timestamp <= 10 * TicksPerSecond
    /\ fnOut = <<fnIn[2]>>

\* C6: deduplicateAttendance applied to its own result returns that result,
\* same entries in the same order.
C6_DedupIdempotent == [][fnStage' = "dedup2" => fnOut' = fnOut]_vars

\* C6: the second application ran on a result that had lost a duplicate and
\* holds two entries of one instant
C6_Witness ==
    /\ fnStage = "dedup2"
    /\ Len(fnOut) < Len(fnIn)
    /\ Len(fnOut) = 2
    /\ fnOut[1].timestamp = fnOut[2].timestamp

\* the first available healthy driver after d, or Unknown
NextHealthy(d) == FirstDriverFrom(DriverIndex(d) + 1, LAMBDA x : x \in avail \ failing)

\* C7: when the active driver reports available but fails, and a driver of
\* lower preference is available and healthy, the save of a pull pass succeeds,
\* the data is in that driver, and it is the current driver from then on: a
\* healthy current driver is never left.
C7_SaveFallback ==
    [][/\ (/\ lastOp'.op = "pull" /\ lastOp'.fetched
           /\ currentDriver = "electron-sqlite"
           /\ currentDriver \in avail \cap failing
           /\ NextHealthy(currentDriver) # Unknown)
          => /\ lastOp'.saved
             /\ getCurrentDriverName(currentDriver') = NextHealthy(currentDriver)
             /\ store'[NextHealthy(currentDriver)].lastSync = now
       /\ (currentDriver \in DriverNames \ failing) => currentDriver' = currentDriver
      ]_vars

\* C7: a pull pass saved through the fallback: the file-backed driver fails
\* and the embedded driver holds the merged data
C7_Witness ==
    /\ lastOp.op = "pull" /\ lastOp.saved
    /\ failing = {"electron-sqlite"}
    /\ currentDriver = "indexeddb"
    /\ store["indexeddb"].lastSync = now
    /\ store["indexeddb"].attendanceRecords # <<>>

\* C8: a pull pass that loads an envelope without the bootstrap flag asks for
\* attendance without a date bound; one that loads the flag asks for the last
\* 30 days only; both ask for all students.
C8_BootstrapQuery ==
    lastOp.op = "pull" =>
        /\ lastOp.flag # "true" => ~lastOp.query.filtered
        /\ lastOp.flag = "true" =>
              lastOp.query.filtered /\ lastOp.query.gte = now - PULL_WINDOW
        /\ ~lastOp.studentQuery.filtered

\* C8: a pull pass loaded the flag and asked for the last 30 days
C8_Witness ==
    /\ lastOp.op = "pull" /\ lastOp.flag = "true" /\ lastOp.fetched
    /\ lastOp.query.filtered

\* C9: after a pull pass that fetched and saved, a load returns the bootstrap
\* flag set and a sync time, whichever driver is active.
C9_BootstrapOnce ==
    (lastOp.op = "pull" /\ lastOp.fetched /\ lastOp.saved) =>
        /\ Truthy(Loaded.fullSyncCompleted)
        /\ Loaded.lastSync # NoSync

\* C10: a non-forced sync request less than 30 seconds after the start of the
\* previous cycle starts nothing and leaves the local store and the backend
\* alone; so a non-forced request starts a cycle only 30 seconds or more after
\* the previous start.
C10_Throttle ==
    [][(lastOp'.op = "request" /\ lastOp'.normalCall) =>
          LET previous == IF lastOp'.forcedCall THEN now ELSE lastSyncTime
          IN  /\ now - previous < 30 * TicksPerSecond =>
                    /\ lastOp'.started = 0
                    /\ pendingPush' = pendingPush + (IF lastOp'.forcedCall THEN 1 ELSE 0)
                    /\ UNCHANGED <<pendingPull, store, currentDriver, remoteVars>>
              /\ lastOp'.started = 1 => now - previous >= 30 * TicksPerSecond
      ]_vars

\* C10: a non-forced request arrived less than 30 seconds after a cycle had
\* started and was dropped
C10_Witness ==
    /\ lastOp.op = "request" /\ lastOp.normalCall /\ ~lastOp.forcedCall
    /\ lastOp.started = 0
    /\ lastSyncTime >= StartNow
    /\ now - lastSyncTime < 30 * TicksPerSecond
    /\ pendingPush = 0 /\ pendingPull = 0

\* C11: every call of the public forceSync() starts a cycle, whatever the time
\* since the previous cycle started.
C11_ForceSyncBypassesThrottle ==
    [][ForceSync => pendingPush' = pendingPush + 1]_vars

\* C12: a pull pass one of whose two requests failed saves nothing: every
\* driver holds what it held, and a load returns the same students, attendance,
\* lastSync and bootstrap flag as before the pass.
C12_FailedFetchSavesNothing ==
    [][(lastOp'.op = "pull" /\ ~lastOp'.requestsOk) =>
          /\ store' = store
          /\ Loaded' = Loaded]_vars

\* C12: a request of a pull pass failed on line while the envelope held an
\* entry and an earlier sync time
C12_Witness ==
    /\ lastOp.op = "pull" /\ ~lastOp.requestsOk
    /\ online
    /\ Loaded.attendanceRecords # <<>>
    /\ Loaded.lastSync # NoSync

PushCandidates(data, t) ==
    {r \in Range(data.attendanceRecords) : IsPushCandidate(r, t, isElectron)}

\* C14: in a push pass every ready entry is attempted: it is pushed or its
\* remote call failed; an entry whose call failed is still in the envelope a
\* load returns, same id and content, and is a candidate of the next pass while
\* inside the 7-day window; a pull pass drops no entry that is not yet under a
\* backend id.
C14_FailedPushContained ==
    [][/\ lastOp'.op = "push" =>
             \A r \in PushCandidates(Loaded, now) :
                /\ r.id \in {p.old : p \in lastOp'.records} \cup lastOp'.failed
                /\ r.id \in lastOp'.failed =>
                      /\ r \in Range(Loaded'.attendanceRecords)
                      /\ now' - r.timestamp <= 7 * 24 * 3600 * TicksPerSecond
                            => r \in PushCandidates(Loaded', now')
       /\ lastOp'.op = "pull" =>
             \A r \in Range(Loaded.attendanceRecords) :
                ~isUUID(r.id) => r \in Range(Loaded'.attendanceRecords)
      ]_vars

\* C14: of two ready entries the first failed and the second was inserted in
\* the same pass, and the pass saved
C14_Witness ==
    /\ lastOp.op = "push" /\ lastOp.saved
    /\ lastOp.failed = {EarlierEntries[1].id}
    /\ \E p \in lastOp.records : p.old = EarlierEntries[2].id
    /\ EarlierEntries[1] \in PushCandidates(Loaded, now)

\* the first driver from d on, d itself or an available one, whose load does
\* not throw, or Unknown
FirstLoading(d) ==
    FirstDriverFrom(DriverIndex(d),
                    LAMBDA x : (x = d \/ x \in avail) /\ ~DriverLoadThrows(x, failing))

\* the first driver from d on, d itself or an available one, that does not
\* fail, or Unknown
FirstWorking(d) ==
    FirstDriverFrom(DriverIndex(d), LAMBDA x : (x = d \/ x \in avail) /\ x \notin failing)

\* C15: when the active driver and every available driver of lower preference
\* fail a load or a save, the Storage Manager raises, the active driver is the
\* same after the call and nothing is written. A driver fails a load when its
\* load() throws: the file-backed and the flat driver catch their own load
\* errors and return an empty envelope, which the manager takes as a success.
C15_AllDriversFail ==
    [][/\ (/\ lastOp'.op = "mload" /\ currentDriver # Unknown
           /\ FirstLoading(currentDriver) = Unknown)
          => ~lastOp'.ok /\ currentDriver' = currentDriver /\ store' = store
       /\ (/\ lastOp'.op = "msave" /\ currentDriver # Unknown
           /\ FirstWorking(currentDriver) = Unknown)
          => ~lastOp'.ok /\ currentDriver' = currentDriver /\ store' = store
      ]_vars

\* C15: a save failed on the file-backed driver and on both drivers below it
C15_Witness ==
    /\ lastOp.op = "msave" /\ ~lastOp.ok
    /\ currentDriver = "electron-sqlite"
    /\ avail = DriverNames
    /\ failing = DriverNames

\* C16: a load, a save or a clear never moves the active driver up the
\* preference list; when one of them changes it, the new active driver is the
\* first available driver below the old one on which the operation succeeds.
C16_OnlyDownwards ==
    [][(lastOp'.op \in {"mload", "msave", "mclear"} /\ currentDriver # Unknown) =>
          /\ currentDriver' # Unknown
          /\ DriverIndex(currentDriver') >= DriverIndex(currentDriver)
          /\ currentDriver' # currentDriver =>
                currentDriver' =
                   FirstDriverFrom(DriverIndex(currentDriver) + 1,
                       LAMBDA d : /\ d \in avail
                                  /\ IF lastOp'.op = "mload"
                                     THEN ~DriverLoadThrows(d, failing)
                                     ELSE d \notin failing)
      ]_vars

\* C16: a save succeeded on the flat driver, which stays the active driver
\* although the file-backed driver works again
C16_Witness ==
    /\ lastOp.op = "msave" /\ lastOp.ok
    /\ currentDriver = "localstorage"
    /\ avail = DriverNames
    /\ "electron-sqlite" \notin failing
    /\ store["localstorage"].attendanceRecords # <<>>

\* C17: when the active driver's clear fails and an available driver of lower
\* preference works, clear succeeds on the first such driver and makes it the
\* active driver.
C17_ClearFallback ==
    [][(/\ lastOp'.op = "mclear" /\ currentDriver # Unknown
        /\ currentDriver \in failing
        /\ NextHealthy(currentDriver) # Unknown)
       => /\ lastOp'.ok
          /\ currentDriver' = NextHealthy(currentDriver)
          /\ store'[NextHealthy(currentDriver)] = EmptyData
      ]_vars

\* C18: init adopts a driver only if it is available and its trial load does
\* not throw, and only if every driver before it in the order is unavailable or
\* throws on the trial load; when no driver qualifies, init raises and the
\* manager stays without a driver, as does any operation called in that state.
C18_InitAdoptsFirstUsable ==
    [][(lastOp'.op \in {"minit", "mload", "msave", "mclear"} /\ currentDriver = Unknown) =>
          LET usable == {d \in avail : ~DriverLoadThrows(d, failing)}
          IN  /\ usable = {} => ~lastOp'.ok /\ currentDriver' = Unknown
              /\ lastOp'.op = "minit" =>
                    /\ lastOp'.ok = (usable # {})
                    /\ usable # {} =>
                          /\ currentDriver' \in usable
                          /\ \A e \in usable : DriverIndex(currentDriver') <= DriverIndex(e)
      ]_vars

\* C18: init skipped the embedded driver, whose trial load threw, and adopted
\* the flat one
C18_Witness ==
    /\ lastOp.op = "minit" /\ lastOp.ok
    /\ currentDriver = "localstorage"
    /\ "indexeddb" \in avail \cap failing
    /\ "electron-sqlite" \notin avail

\* C19: a migrate that succeeds has saved what a load returned into the target
\* and made it the active driver; a migrate whose target is unknown, is
\* unavailable or fails its save raises and leaves the active driver as it was.
C19_Migrate ==
    [][(lastOp'.op = "migrate" /\ currentDriver # Unknown) =>
          /\ lastOp'.ok =>
                /\ currentDriver' = lastOp'.target
                /\ store'[lastOp'.target] = DriverSave(lastOp'.target, store, Loaded)
          /\ (\/ lastOp'.target \notin DriverNames
              \/ lastOp'.target \notin avail
              \/ lastOp'.target \in failing)
             => ~lastOp'.ok /\ currentDriver' = currentDriver
      ]_vars

\* C20: no step of addAttendanceRecord and no push pass whose lookups
\* succeed adds a row for an event (student, direction, time) of which the
\* backend already holds a row: each captured event is at most one row.
C20_NoRemoteDuplicate ==
    [][(\/ lastOp'.op = "add-end"
        \/ lastOp'.op = "push" /\ lastOp'.lookupsOk) =>
          \A k \in (Len(remoteAttendance) + 1)..Len(remoteAttendance') :
             \A i \in 1..Len(remoteAttendance) :
                CompositeKey(remoteAttendance[i]) # CompositeKey(remoteAttendance'[k])
      ]_vars

MergeStages == {"pull", "realtime", "service"}

\* C23: the output of the fuzzy merge holds no two entries of one student and
\* direction whose timestamps are 10 seconds apart or less, whatever the input
\* list and its order.
C23_NoNearPairInOutput ==
    fnStage \in MergeStages
    => \A i, j \in 1..Len(fnOut) : i < j => ~SameEvent(fnOut[i], fnOut[j])

\* C24: when two entries conflict in the fuzzy merge and both or neither have
\* a course, the one with a UUID is kept over the one with a placeholder or
\* another non-UUID id, and when both or neither have a UUID the later one is
\* kept; in the pull pass, the realtime ingestor and getAttendanceRecords.
C24_UuidThenLater ==
    (/\ fnStage \in MergeStages
     /\ Len(fnIn) = 2
     /\ SameEvent(fnIn[1], fnIn[2])
     /\ HasCourse(fnIn[1]) = HasCourse(fnIn[2]))
    => /\ Len(fnOut) = 1
       /\ (isUUID(fnIn[1].id) /\ ~isUUID(fnIn[2].id)) => fnOut[1] = fnIn[1]
       /\ (isUUID(fnIn[2].id) /\ ~isUUID(fnIn[1].id)) => fnOut[1] = fnIn[2]
       /\ (isUUID(fnIn[1].id) = isUUID(fnIn[2].id))
          => /\ fnOut[1] \in {fnIn[1], fnIn[2]}
             /\ fnOut[1].timestamp >= fnIn[1].timestamp
             /\ fnOut[1].timestamp >= fnIn[2].timestamp

\* two entries of one student and direction within one second of the clock
SameSecond(a, b) ==
    /\ a.studentId = b.studentId
    /\ a.type = b.type
    /\ a.timestamp \div TicksPerSecond = b.timestamp \div TicksPerSecond

\* every entry of s is an entry of t
IsSelection(s, t) ==
    \A i \in 1..Len(s) : \E j \in 1..Len(t) : t[j] = s[i]

\* C25: deduplicateAttendance returns entries of its input, exactly one for
\* each (student, direction, second) group of the input, that entry having
\* the latest timestamp of its group, ordered by timestamp descending.
C25_OnePerGroupLatestFirst ==
    fnStage = "dedup"
    => /\ IsSelection(fnOut, fnIn)
       /\ \A k \in 1..Len(fnIn) : \E i \in 1..Len(fnOut) : SameSecond(fnIn[k], fnOut[i])
       /\ \A i, j \in 1..Len(fnOut) : i < j =>
             /\ ~SameSecond(fnOut[i], fnOut[j])
             /\ fnOut[i].timestamp >= fnOut[j].timestamp
       /\ \A i \in 1..Len(fnOut) : \A k \in 1..Len(fnIn) :
             SameSecond(fnIn[k], fnOut[i]) => fnOut[i].timestamp >= fnIn[k].timestamp

\* C25: an input of three entries held an earlier and a later entry of one
\* second and one entry of another student; the later one and the other
\* student's were returned
C25_Witness ==
    /\ fnStage = "dedup"
    /\ Len(fnIn) = 3
    /\ Len(fnOut) = 2
    /\ \E i, k \in 1..3 :
          /\ SameSecond(fnIn[i], fnIn[k])
          /\ fnIn[i].timestamp < fnIn[k].timestamp
          /\ fnIn[i].studentId = fnOut[1].studentId
          /\ fnOut[1] = fnIn[k]
    /\ fnOut[2].studentId # fnOut[1].studentId

\* C27: a push pass attempts an entry only if its id is a placeholder or not
\* a UUID, its timestamp is at most 7 days old and, in the browser, it is
\* more than 15 seconds old; the file-backed host skips the 15 seconds. Every
\* row the pass inserts is such an entry.
C27_PushFilter ==
    [][lastOp'.op = "push" =>
         LET Ready(r) ==
                 /\ ~isUUID(r.id)
                 /\ now - r.timestamp <= 7 * 24 * 3600 * TicksPerSecond
                 /\ isElectron \/ now - r.timestamp > 15 * TicksPerSecond
         IN  /\ \A id \in {p.old : p \in lastOp'.records} \cup lastOp'.failed :
                   \E r \in Range(Loaded.attendanceRecords) : r.id = id /\ Ready(r)
             /\ \A k \in (Len(remoteAttendance) + 1)..Len(remoteAttendance') :
                   \E r \in Range(Loaded.attendanceRecords) :
                      /\ Ready(r)
                      /\ CompositeKey(r) = CompositeKey(remoteAttendance'[k])
      ]_vars

\* C27: in the browser the first pass pushed the entry of 20 s ago and left
\* the entry of 10 s ago, the one under a UUID and the one of 8 days ago
C27_Witness ==
    /\ lastOp.op = "push" /\ lastOp.saved
    /\ ~isElectron
    /\ now = StartNow
    /\ {p.old : p \in lastOp.records} = {WindowEntries[1].id}
    /\ lastOp.failed = {}
    /\ Len(remoteAttendance) = 1
    /\ {WindowEntries[2], WindowEntries[3], WindowEntries[4]}
          \subseteq Range(Loaded.attendanceRecords)

\* the backend row has the direction of the other row and its business key
\* (its permanent student id when one is set) and lies within 10 seconds of it
SameRemoteEvent(row, other) ==
    /\ row.type = other.type
    /\ IF isUUID(other.studentDatabaseId)
       THEN row.studentDatabaseId = other.studentDatabaseId
       ELSE row.studentId = other.studentId
    /\ Abs(row.timestamp - other.timestamp) <= 10 * TicksPerSecond

\* C26: a push pass inserts a row only for an entry for which the backend
\* holds no row of the same direction and business key (or permanent student
\* id) within 10 seconds at the time of the insert.
C26_InsertOnlyWhenAbsent ==
    [][lastOp'.op = "push" =>
         \A k \in (Len(remoteAttendance) + 1)..Len(remoteAttendance') :
            \A j \in 1..(k - 1) :
               ~SameRemoteEvent(remoteAttendance'[j], remoteAttendance'[k])
      ]_vars

\* the ids of the rows of the backend's attendance table
RemoteIds == {remoteAttendance[i].id : i \in 1..Len(remoteAttendance)}

C29_DirtyOverlay ==
    [][(lastOp'.op = "pull" /\ lastOp'.fetched) =>
         \A k \in 1..Len(remoteStudents) :
            LET row == remoteStudents[k]
                mine == {s \in Range(Loaded.students) :
                            s.dirty /\ ~startsWithLocal(s.id) /\ s.id = row.id}
                saving == {s \in Range(lastOp'.data.students) : s.id = row.id}
            IN  IF mine # {}
                THEN /\ saving \subseteq mine
                     /\ saving # {}
                ELSE saving = {[id |-> row.id, studentId |-> row.studentId,
                                name |-> row.name, dirty |-> FALSE]}
      ]_vars

\* C29: the update of the edited student failed in the push pass, and the
\* pull pass that followed saved the student with the edited name, still dirty
C29_Witness ==
    /\ lastOp.op = "pull" /\ lastOp.saved
    /\ remoteStudents = BacklogRemoteStudents
    /\ BacklogStudents[1] \in Range(lastOp.data.students)
    /\ BacklogStudents[1] \in Range(Loaded.students)

\* C22: addAttendanceRecord accepts a scan only when the envelope holds no
\* entry of the student and direction that is less than 300 seconds old, so
\* that no two accepted entries of one student and direction are less than
\* 300 seconds apart.
C22_Cooldown ==
    [][(lastOp'.op = "add" /\ ~lastOp'.rejected) =>
         \A r \in Range(Loaded.attendanceRecords) :
            (r.studentId = lastOp'.studentId /\ r.type = lastOp'.type)
            => now - r.timestamp >= 300 * TicksPerSecond
      ]_vars

\* C30: a student that is dirty in the persisted envelope stays in it with
\* the same values and the dirty flag through every step, unless the step is
\* a push pass that has sent the student's values to the backend.
C30_DirtyUntilPushed ==
    [][\A s \in Range(Loaded.students) :
          IsDirty(s)
          => \/ s \in Range(Loaded'.students)
             \/ /\ lastOp'.op = "push"
                /\ \E k \in 1..Len(remoteStudents') :
                      /\ remoteStudents'[k].id = s.id
                      /\ remoteStudents'[k].name = s.name
      ]_vars

\* the envelope holds an entry of the student and direction within 10 seconds of t
Represented(data, sid, type, t) ==
    \E r \in Range(data.attendanceRecords) :
       /\ r.studentId = sid
       /\ r.type = type
       /\ Abs(r.timestamp - t) <= 10 * TicksPerSecond

\* C21: the entry addAttendanceRecord has written is in the persisted
\* envelope when the write is done, and every entry of the persisted envelope
\* is still represented in it, by itself or by an entry of the same student
\* and direction within 10 seconds, after every step of a push pass, a pull
\* pass, a realtime flush or the scan, in any interleaving of their loads and
\* saves.
C21_NoLocalLoss ==
    [][/\ lastOp'.op = "add-begin" =>
             \E r \in Range(Loaded'.attendanceRecords) :
                /\ r.studentId = lastOp'.studentId /\ r.type = lastOp'.type
                /\ r.timestamp = now
       /\ \A r \in Range(Loaded.attendanceRecords) :
             Represented(Loaded', r.studentId, r.type, r.timestamp)
      ]_vars

\* C21: a pull pass or a realtime flush loaded the envelope before the scan
\* wrote its entry and then saved a list that has no entry within 10 seconds
\* of it: the scan's entry is still in the persisted envelope
C21_Witness ==
    /\ lastOp.op \in {"pull", "flush"} /\ lastOp.saved
    /\ created = 1
    /\ \E r \in Range(Loaded.attendanceRecords) :
          /\ ~isUUID(r.id)
          /\ ~Represented(lastOp.loaded, r.studentId, r.type, r.timestamp)
          /\ ~Represented(lastOp.data, r.studentId, r.type, r.timestamp)

\* C31: a change notification changes neither the store nor the active driver
\* when it arrives; the callbacks of scheduleFlush not yet run are never more
\* than one, and there is one exactly when flushTimeout is set; a notification
\* that arrives while flushTimeout is set calls no setTimeout, one that arrives
\* while it is not set starts the timer.
C31_Batching ==
    [][/\ lastOp'.op = "notify" =>
             /\ store' = store /\ currentDriver' = currentDriver
             /\ lastOp'.started = ~flushTimeout
             /\ flushTimers' = IF flushTimeout THEN flushTimers ELSE flushTimers + 1
       /\ flushTimers' <= 1
       /\ flushTimeout' = (flushTimers' = 1)
      ]_vars

\* C31: a second notification has arrived while the timer of the first was set
C31_Witness ==
    /\ lastOp.op = "notify" /\ ~lastOp.started
    /\ flushTimeout /\ flushTimers = 1
    /\ Len(pendingStudentUpdates) + Len(pendingAttendanceUpdates) >= 2

\* the student notifications a flush has processed: the latest one per id
StudentPayloads(processed) ==
    SelectSeq(processed, LAMBDA p : p.eventType \in {"INSERT", "UPDATE"}
                                     /\ "name" \in DOMAIN p.new)

\* C32: after a flush, every student of an INSERT or UPDATE notification of the
\* batch window is in the student list the flush leaves, under the id and with
\* the name of the latest notification.
C32_LatestApplied ==
    lastOp.op = "flush" =>
        \A p \in Range(StudentPayloads(lastOp.processed)) :
           \E s \in Range(lastOp.data.students) :
              s.id = p.new.id /\ s.name = p.new.name

\* the ids of the DELETE notifications a flush has processed whose record the
\* envelope it loaded held in the list
DeletedIds(processed, list) ==
    {p.old.id : p \in {q \in Range(processed) : q.eventType = "DELETE"}}
        \cap {r.id : r \in Range(list)}

\* C33: after a flush that processed a DELETE notification for a student or an
\* entry the envelope held under that id, a load through the Storage Manager
\* returns no student and no entry under that id.
C33_DeletedIsGone ==
    lastOp.op = "flush" =>
        /\ \A s \in Range(Loaded.students) :
              s.id \notin DeletedIds(lastOp.processed, lastOp.loaded.students)
        /\ \A r \in Range(Loaded.attendanceRecords) :
              r.id \notin DeletedIds(lastOp.processed, lastOp.loaded.attendanceRecords)

\* C34: at most one sync cycle is running at any time, whatever timer ticks,
\* online events, startup checks and forceSync calls occur: no performSync
\* starts a cycle while the push pass or the pull pass of an earlier one is
\* still to run.
C34_OneCycleRunning == Inflight <= 1

\* C35: after any sequence of saves, the store of each driver holds at most one
\* attendance row per composite key (student, timestamp, direction), also when
\* a save brings a record whose key is stored or the same record twice.
C35_OneRowPerKey ==
    \A d \in DriverNames :
       \A i, j \in 1..Len(store[d].attendanceRecords) :
          CompositeKey(store[d].attendanceRecords[i]) =
              CompositeKey(store[d].attendanceRecords[j]) => i = j

\* C35: a save that brought two records of one key has succeeded on the flat
\* driver, which holds a record of another key too, after saves on the
\* file-backed and the embedded driver
C35_Witness ==
    /\ lastOp.op = "msave" /\ lastOp.ok
    /\ Len(lastOp.data.attendanceRecords) = 2
    /\ CompositeKey(lastOp.data.attendanceRecords[1]) =
          CompositeKey(lastOp.data.attendanceRecords[2])
    /\ currentDriver = "localstorage"
    /\ Len(store["localstorage"].attendanceRecords) = 2
    /\ store["electron-sqlite"].attendanceRecords # <<>>
    /\ store["indexeddb"].attendanceRecords # <<>>

\* C36: after any sequence of saves, the student list each driver holds and
\* the one a load returns have at most one student per business key, and a
\* save that brings a student of a stored business key leaves the values of
\* the student it brought last.
C36_OneStudentPerKey ==
    /\ \A d \in DriverNames :
          \A i, j \in 1..Len(store[d].students) :
             store[d].students[i].studentId = store[d].students[j].studentId => i = j
    /\ \A i, j \in 1..Len(Loaded.students) :
          Loaded.students[i].studentId = Loaded.students[j].studentId => i = j
    /\ (lastOp.op = "msave" /\ lastOp.ok) =>
          \A k \in 1..Len(lastOp.data.students) :
             (\A m \in (k + 1)..Len(lastOp.data.students) :
                 lastOp.data.students[m].studentId # lastOp.data.students[k].studentId)
             => \E s \in Range(store[currentDriver].students) :
                   /\ s.studentId = lastOp.data.students[k].studentId
                   /\ s.name = lastOp.data.students[k].name

\* C36: a save has brought the two students of one business key to the flat
\* driver, which holds another student too, after saves on the file-backed
\* and the embedded driver
C36_Witness ==
    /\ lastOp.op = "msave" /\ lastOp.ok
    /\ currentDriver = "localstorage"
    /\ Len(lastOp.data.students) = 2
    /\ \E s \in Range(lastOp.data.students) : s.name = "Bea"
    /\ Len(store["localstorage"].students) = 2
    /\ store["electron-sqlite"].students # <<>>
    /\ store["indexeddb"].students # <<>>

\* C38: as long as clear has not been called and some driver of the host
\* works, a load through the Storage Manager returns every record a save
\* through it has stored, that is every attendance row any driver holds, also
\* after the manager has fallen back to a driver of lower preference.
C38_StoredIsLoaded ==
    (avail \ failing # {}) =>
    \A d \in DriverNames :
       \A r \in Range(store[d].attendanceRecords) :
          \E q \in Range(Loaded.attendanceRecords) : CompositeKey(q) = CompositeKey(r)

\* C39: every notification in the pending maps is, after each step, still in
\* the maps or among the notifications the flush of that step has processed:
\* none leaves the maps unprocessed, whether it arrived before a flush, while
\* a flush waited for its load, or between two timers.
C39_NoneDropped ==
    [][\A p \in Range(pendingStudentUpdates \o pendingAttendanceUpdates) :
          \/ p \in Range(pendingStudentUpdates' \o pendingAttendanceUpdates')
          \/ lastOp'.op = "flush" /\ p \in Range(lastOp'.processed)
      ]_vars

\* the backend holds a row of the event of the entry
Pushed(r) ==
    \E k \in 1..Len(remoteAttendance) :
       /\ remoteAttendance[k].studentId = r.studentId
       /\ remoteAttendance[k].type = r.type
       /\ remoteAttendance[k].timestamp = r.timestamp

====
